---- MODULE Spec2Model ----
(***************************************************************************)
(* A model of the gomoku rule engine, Board (gomoku-core/src/board.rs) and *)
(* Game (gomoku-core/src/game.rs), of the coordinate parser                *)
(* (gomoku-core/src/board/index_parser.rs) and of the replay sampling of   *)
(* the learning agent (gomoku-agent/src/replay.rs).                        *)
(*                                                                         *)
(* Spec          : a Game driven by arbitrary place_stone(index) calls.    *)
(* SpecCount     : Board::count_consecutive_cells on arbitrary boards.     *)
(* SpecParse     : Board::parse_index applied to input texts.              *)
(* SpecRoundTrip : Board::index_to_position followed by parse_index.       *)
(* SpecHistory   : generate_history_boards on games of any length.         *)
(* SpecReplay    : chained sample_replay calls (gomoku-agent/src/replay.rs)*)
(*                 and the TD target of the trainer.                       *)
(* SpecReward    : compute_nonterminal_reward after a move on larger boards*)
(* SpecEstimate  : GomokuDDQNAgent::next_move and the arg-max of the TD    *)
(*                 target on the games and steps of sample_replay.         *)
(* SpecTrain     : GomokuDDQNTrainer::train: environment phase, replay     *)
(*                 buffer, batches, optimizer step and soft update.        *)
(***************************************************************************)
EXTENDS Integers, Sequences, FiniteSets

VARIABLES
    board_size,              \* Game.board_size
    max_consecutive_stones,  \* Game.max_consecutive_stones
    turn,                    \* Game.turn
    turn_count,              \* Game.turn_count
    history,                 \* Game.history: Vec<(Turn, Board)>
    game_result,             \* Game.game_result: Option<GameResult>
    board,                   \* Game.board
    ret,                     \* what the last place_stone call returned
    probe_board,             \* a free-standing Board (SpecCount)
    probe,                   \* the last count_consecutive_cells call on it
    overflow_checks,         \* build profile: integer overflow checks on (debug)
    text_size,               \* board_size of the Board that parses / formats
    text_index,              \* the index given to index_to_position
    text,                    \* the text given to parse_index
    parsed,                  \* what IndexParser::parse and parse_index returned
    pvp,                     \* gomoku-cli-pvp main: where it is
    agent_turn,              \* the learner's turn, as sample_replay returns it
    step,                    \* the ReplayStep of the last sample_replay call
    call,                    \* what the last sample_replay call did
    frames,                  \* the last generate_history_boards call
    supplied,                \* what the last sample_replay call was given
    reward,                  \* the last compute_nonterminal_reward call
    estimate,                \* the last arg-max over the estimator's scores
    options,                 \* TrainOptions
    epoch,                   \* train: epoch
    iteration,               \* train: iteration
    generated,               \* sample_replay calls made in this epoch
    epsilon,                 \* train: epsilon
    replay_buffer,           \* train: replay_buffer (VecDeque<ReplayStep>)
    appended,                \* every step pushed to replay_buffer, in order
    phase,                   \* where train is
    batch,                   \* train: batch (positions in replay_buffer)
    training_step,           \* training steps done in this epoch
    copied,                  \* the last copy_weights_from call and its models
    evaluation,              \* eval::evaluate_many: its game and its tallies
    var_store,               \* agent.var_store(): named parameters
    optimizer                \* the variables the optimizer updates

vars == <<board_size, max_consecutive_stones, turn, turn_count, history,
          game_result, board, ret, probe_board, probe,
          overflow_checks, text_size, text_index, text, parsed, pvp,
          agent_turn, step, call, frames, supplied, reward, estimate,
          options, epoch, iteration, generated, epsilon, replay_buffer,
          appended, phase, batch, training_step, copied, evaluation,
          var_store, optimizer>>

game_vars == <<board_size, max_consecutive_stones, turn, turn_count, history,
               game_result, board, ret>>

probe_vars == <<probe_board, probe>>

text_vars == <<overflow_checks, text_size, text_index, text, parsed, pvp>>

replay_vars == <<agent_turn, step, call, frames>>

estimator_vars == <<supplied, reward, estimate>>

train_vars == <<options, epoch, iteration, generated, epsilon, replay_buffer,
                appended, phase, batch, training_step, copied, evaluation,
          var_store, optimizer>>

---------------------------------------------------------------------------
(* Bounds of the model.                                                    *)

\* place_stone is explored on games of up to MaxTurns moves.
MaxTurns == 5

\* Failing place_stone calls are explored on games of up to MaxErrTurns moves.
MaxErrTurns == 3

\* place_stone is called with indices 0 .. size*size - 1 + IndexOver.
IndexOver == 1

\* The trainer's real numbers (epsilon, its decay and floor, gamma, tau, the
\* weights) are multiples of 1/Scale.
Scale == 4

\* The environment phase of an epoch is explored up to MaxCalls calls of the
\* replay generator.
MaxCalls == 4

\* Board sizes and win lengths Game::new is called with.
BoardSizes == {2, 3}

WinLengths == {1, 2, 3}

\* Sizes of the free-standing boards of SpecCount (every colouring of them).
ProbeSizes == {2, 3}

\* parse_index is given every text of up to MaxTextLen characters of
\* TextAlphabet, and the texts of ExtraTexts.
MaxTextLen == 4

\* The games of SpecHistory are played with moves among the first
\* MoveChoices legal moves.
MoveChoices == 3

\* Where sample_replay chooses among the legal moves (the random opponent,
\* the exploring learner), it chooses among the first ReplayChoices of them.
ReplayChoices == 2

\* Board size and win lengths of the games rewards are computed on: the
\* stones lie on row RewardLine and column RewardLine of the board.
RewardSizes == {6}

RewardWinLengths == {5, 7}

RewardLine == 2

\* Board sizes and win lengths of the games replays are sampled from.
ReplaySizes == {2, 3}

ReplayWinLengths == {2, 3}

\* Board sizes that parse (SpecParse) and that format and parse
\* back (SpecRoundTrip).
ParseSizes == {2, 3, 15, 27}

RoundTripSizes == {2, 3, 27}

---------------------------------------------------------------------------
(* Turn, Cell, GameResult                                                  *)

Turns == {"Black", "White"}

Cells == {"Empty", "Black", "White"}

\* Turn::next with both arms yielding White
TurnNext_AlwaysWhite(t) == "White"

\* Turn::next
TurnNext(t) == IF t = "Black" THEN "White" ELSE "Black"

\* impl From<Turn> for Cell
TurnToCell(t) == IF t = "Black" THEN "Black" ELSE "White"

\* Cell::is_empty
is_empty(cell) == cell = "Empty"

\* Option<GameResult>
NoResult == [tag |-> "None"]

Draw == [tag |-> "Draw"]

Win(t) == [tag |-> "Win", turn |-> t]

is_some(r) == r.tag # "None"

---------------------------------------------------------------------------
(* Board                                                                   *)

\* Board::new
BoardNew(n) == [board_size |-> n, cells |-> [i \in 0..(n * n - 1) |-> "Empty"]]

\* Vec::len of Board.cells
NumCells(b) == Cardinality(DOMAIN b.cells)

\* Board::get_cell: self.cells.get(index).copied()
InRange(b, index) == index \in DOMAIN b.cells

\* Board::set_cell writing back the value the cell already holds
set_cell_KeepsOld(b, index, cell) == [b EXCEPT !.cells[index] = b.cells[index]]

\* Board::set_cell
set_cell(b, index, cell) == [b EXCEPT !.cells[index] = cell]

\* enumerate().filter_map(..).collect() over the cells, in index order
RECURSIVE FilterIndices(_, _, _)
FilterIndices(b, i, keep_empty) ==
    IF i >= NumCells(b) THEN <<>>
    ELSE IF is_empty(b.cells[i]) = keep_empty
         THEN <<i>> \o FilterIndices(b, i + 1, keep_empty)
         ELSE FilterIndices(b, i + 1, keep_empty)

\* Board::legal_moves with the enumeration starting at 1
legal_moves_SkipFirst(b) == FilterIndices(b, 1, TRUE)

\* Board::legal_moves
legal_moves(b) == FilterIndices(b, 0, TRUE)

\* Board::illegal_moves
illegal_moves(b) == FilterIndices(b, 0, FALSE)

\* Board::count_consecutive_cells_in_direction: the while loop, count carried
RECURSIVE DirectionLoop(_, _, _, _, _, _, _)
DirectionLoop(b, x, y, cell, x_delta, y_delta, count) ==
    IF x >= 0 /\ x < b.board_size /\ y >= 0 /\ y < b.board_size
    THEN IF b.cells[y * b.board_size + x] # cell
         THEN count
         ELSE DirectionLoop(b, x + x_delta, y + y_delta, cell,
                            x_delta, y_delta, count + 1)
    ELSE count

\* The walk bounded by the cell vector only, not by the columns: it runs from
\* the end of one row into the start of the next.
RECURSIVE WrappingLoop(_, _, _, _, _, _, _)
WrappingLoop(b, x, y, cell, x_delta, y_delta, count) ==
    IF y * b.board_size + x \in DOMAIN b.cells
    THEN IF b.cells[y * b.board_size + x] # cell
         THEN count
         ELSE WrappingLoop(b, x + x_delta, y + y_delta, cell,
                           x_delta, y_delta, count + 1)
    ELSE count

count_consecutive_cells_in_direction_Wrapping(b, x, y, cell, x_delta, y_delta) ==
    WrappingLoop(b, x, y, cell, x_delta, y_delta, 0)

count_consecutive_cells_in_direction(b, x, y, cell, x_delta, y_delta) ==
    DirectionLoop(b, x, y, cell, x_delta, y_delta, 0)

\* sort_unstable_by_key(|&count| Reverse(count)): descending order
RECURSIVE InsertDesc(_, _)
InsertDesc(s, v) ==
    IF s = <<>> THEN <<v>>
    ELSE IF v >= Head(s) THEN <<v>> \o s
         ELSE <<Head(s)>> \o InsertDesc(Tail(s), v)

RECURSIVE SortDesc(_)
SortDesc(s) == IF s = <<>> THEN <<>> ELSE InsertDesc(SortDesc(Tail(s)), Head(s))

\* while let Some(&count) = results.last() { if count < 2 { pop } else { break } }
RECURSIVE PopSmall(_)
PopSmall(s) ==
    IF s # <<>> /\ s[Len(s)] < 2 THEN PopSmall(SubSeq(s, 1, Len(s) - 1)) ELSE s

\* The four sums with the third axis walked in one direction only
AxisCounts_OneSided(b, x, y, cell) ==
    << 1 + count_consecutive_cells_in_direction(b, x + 1, y, cell, 1, 0)
         + count_consecutive_cells_in_direction(b, x - 1, y, cell, -1, 0),
       1 + count_consecutive_cells_in_direction(b, x, y + 1, cell, 0, 1)
         + count_consecutive_cells_in_direction(b, x, y - 1, cell, 0, -1),
       1 + count_consecutive_cells_in_direction(b, x + 1, y - 1, cell, 1, -1),
       1 + count_consecutive_cells_in_direction(b, x + 1, y + 1, cell, 1, 1)
         + count_consecutive_cells_in_direction(b, x - 1, y - 1, cell, -1, -1) >>

\* the four sums of count_consecutive_cells, before sorting
AxisCounts(b, x, y, cell) ==
    << 1 + count_consecutive_cells_in_direction(b, x + 1, y, cell, 1, 0)
         + count_consecutive_cells_in_direction(b, x - 1, y, cell, -1, 0),
       1 + count_consecutive_cells_in_direction(b, x, y + 1, cell, 0, 1)
         + count_consecutive_cells_in_direction(b, x, y - 1, cell, 0, -1),
       1 + count_consecutive_cells_in_direction(b, x + 1, y - 1, cell, 1, -1)
         + count_consecutive_cells_in_direction(b, x - 1, y + 1, cell, -1, 1),
       1 + count_consecutive_cells_in_direction(b, x + 1, y + 1, cell, 1, 1)
         + count_consecutive_cells_in_direction(b, x - 1, y - 1, cell, -1, -1) >>

\* Board::count_consecutive_cells
count_consecutive_cells(b, index, t) ==
    IF ~InRange(b, index) THEN <<>>
    ELSE IF b.cells[index] # TurnToCell(t) THEN <<>>
    ELSE PopSmall(SortDesc(AxisCounts(b, index % b.board_size,
                                      index \div b.board_size, b.cells[index])))

---------------------------------------------------------------------------
(* Coordinate text: IndexParser and Board::index_to_position               *)
(*                                                                         *)
(* A text is a sequence of one-character strings. usize is modelled        *)
(* UsizeMax + 1 = 2^31 values wide, the widest TLC computes with; the      *)
(* arithmetic below never forms a number above UsizeMax.                   *)

UsizeMax == 2147483647

LowerLetters ==
    << "a", "b", "c", "d", "e", "f", "g", "h", "i", "j", "k", "l", "m",
       "n", "o", "p", "q", "r", "s", "t", "u", "v", "w", "x", "y", "z" >>

UpperLetters ==
    << "A", "B", "C", "D", "E", "F", "G", "H", "I", "J", "K", "L", "M",
       "N", "O", "P", "Q", "R", "S", "T", "U", "V", "W", "X", "Y", "Z" >>

DigitChars == << "0", "1", "2", "3", "4", "5", "6", "7", "8", "9" >>

PosIn(c, chars) == CHOOSE k \in 1..Len(chars) : chars[k] = c

IsIn(c, chars) == \E k \in 1..Len(chars) : chars[k] = c

\* char::is_ascii_alphabetic
is_ascii_alphabetic(c) == IsIn(c, LowerLetters) \/ IsIn(c, UpperLetters)

\* char::to_ascii_lowercase
to_ascii_lowercase(c) ==
    IF IsIn(c, UpperLetters) THEN LowerLetters[PosIn(c, UpperLetters)] ELSE c

\* char::is_ascii_digit
is_ascii_digit(c) == IsIn(c, DigitChars)

\* char::is_whitespace, on the characters the model uses
is_whitespace(c) == c \in {" ", "\t", "\n", "\r"}

\* Option<String>::None
NoText == [kind |-> "None"]

\* index_to_position was not called yet
NotFormatted == [kind |-> "Unset"]

SomeText(t) == [kind |-> "Some", text |-> t]

\* IndexParser::skip_whitespace: what is left of the characters
RECURSIVE skip_whitespace(_)
skip_whitespace(chars) ==
    IF chars # <<>> /\ is_whitespace(Head(chars))
    THEN skip_whitespace(Tail(chars))
    ELSE chars

\* IndexParser::read_alpha: the loop; token <<>> stands for None
RECURSIVE ReadAlphaLoop(_, _)
ReadAlphaLoop(chars, alpha) ==
    IF chars # <<>> /\ is_ascii_alphabetic(Head(chars))
    THEN ReadAlphaLoop(Tail(chars), Append(alpha, to_ascii_lowercase(Head(chars))))
    ELSE [token |-> alpha, rest |-> chars]

read_alpha(chars) == ReadAlphaLoop(chars, <<>>)

\* IndexParser::read_number: the loop; token <<>> stands for None
RECURSIVE ReadNumberLoop(_, _)
ReadNumberLoop(chars, number) ==
    IF chars # <<>> /\ is_ascii_digit(Head(chars))
    THEN ReadNumberLoop(Tail(chars), Append(number, Head(chars)))
    ELSE [token |-> number, rest |-> chars]

read_number(chars) == ReadNumberLoop(chars, <<>>)

\* IndexParser::is_end
is_end(chars) == chars = <<>>

\* A usize value, or the panic that took its place.
Value(v) == [panic |-> FALSE, v |-> v]

Panicked == [panic |-> TRUE, v |-> 0]

\* (a * m + c) mod 2^w without forming a number above UsizeMax
RECURSIVE WrappingMulAdd(_, _, _)
WrappingMulAdd(a, m, c) ==
    IF m = 0 THEN c
    ELSE LET r == WrappingMulAdd(a, m - 1, c)
         IN IF r > UsizeMax - a THEN r - (UsizeMax - a) - 1 ELSE r + a

\* alpha_to_index: index = index * 26 + c_index per character; on overflow the
\* build panics (overflow checks on) or wraps
RECURSIVE AlphaLoop(_, _, _)
AlphaLoop(alpha, index, checks) ==
    IF alpha = <<>> THEN Value(index)
    ELSE LET c_index == PosIn(Head(alpha), LowerLetters) - 1
         IN IF index > (UsizeMax - c_index) \div 26
            THEN IF checks THEN Panicked
                 ELSE AlphaLoop(Tail(alpha), WrappingMulAdd(index, 26, c_index),
                                checks)
            ELSE AlphaLoop(Tail(alpha), index * 26 + c_index, checks)

alpha_to_index(lowercased_alpha, checks) == AlphaLoop(lowercased_alpha, 0, checks)

\* str::parse::<usize>: checked_mul(10) and checked_add(digit) per digit;
\* unwrap() panics on the overflow error
RECURSIVE ParseUsizeLoop(_, _)
ParseUsizeLoop(number, acc) ==
    IF number = <<>> THEN Value(acc)
    ELSE LET d == PosIn(Head(number), DigitChars) - 1
         IN IF acc > (UsizeMax - d) \div 10
            THEN Panicked
            ELSE ParseUsizeLoop(Tail(number), acc * 10 + d)

\* number_to_index
number_to_index(number) == ParseUsizeLoop(number, 0)

\* number_to_index(..) - 1: usize subtraction
MinusOne(n, checks) ==
    IF n.panic THEN Panicked
    ELSE IF n.v >= 1 THEN Value(n.v - 1)
    ELSE IF checks THEN Panicked
    ELSE Value(UsizeMax)

\* Option<Index>, or the panic that took its place
NoIndex == [kind |-> "None"]

SomeIndex(row, column) == [kind |-> "Some", row |-> row, column |-> column]

Panic == [kind |-> "Panic"]

\* Index::is_valid
is_valid(row, column, size) == row < size /\ column < size

\* Index::to_index
to_index(row, column, size) == row * size + column

\* let index = Index { row, column }; if index.is_valid(size) { Some } else { None }
ValidIndex(row, column, size) ==
    IF row.panic \/ column.panic THEN Panic
    ELSE IF is_valid(row.v, column.v, size) THEN SomeIndex(row.v, column.v)
    ELSE NoIndex

\* IndexParser::parse_pattern_alpha_number accepting trailing characters
parse_pattern_alpha_number_NoEndTest(size, alpha, chars, checks) ==
    LET number == read_number(skip_whitespace(chars))
    IN IF number.token = <<>> THEN NoIndex
       ELSE ValidIndex(MinusOne(number_to_index(number.token), checks),
                       alpha_to_index(alpha, checks), size)

\* IndexParser::parse_pattern_alpha_number
parse_pattern_alpha_number(size, alpha, chars, checks) ==
    LET number == read_number(skip_whitespace(chars))
    IN IF number.token = <<>> THEN NoIndex
       ELSE IF ~is_end(skip_whitespace(number.rest)) THEN NoIndex
       ELSE ValidIndex(MinusOne(number_to_index(number.token), checks),
                       alpha_to_index(alpha, checks), size)

\* IndexParser::parse_pattern_number_alpha
parse_pattern_number_alpha(size, number, alpha, chars, checks) ==
    IF ~is_end(skip_whitespace(chars)) THEN NoIndex
    ELSE ValidIndex(MinusOne(number_to_index(number), checks),
                    alpha_to_index(alpha, checks), size)

\* IndexParser::parse_pattern_number_number
parse_pattern_number_number(size, number, second_number, chars, checks) ==
    IF ~is_end(skip_whitespace(chars)) THEN NoIndex
    ELSE ValidIndex(MinusOne(number_to_index(second_number), checks),
                    MinusOne(number_to_index(number), checks), size)

\* IndexParser::parse_pattern_number; a division by zero panics in every build
parse_pattern_number(size, number, chars, checks) ==
    IF ~is_end(skip_whitespace(chars)) THEN NoIndex
    ELSE LET number_index == MinusOne(number_to_index(number), checks)
         IN IF number_index.panic \/ size = 0 THEN Panic
            ELSE ValidIndex(Value(number_index.v \div size),
                            Value(number_index.v % size), size)

\* IndexParser::parse
parse(size, input, checks) ==
    LET start == skip_whitespace(input)
        alpha == read_alpha(start)
        number == read_number(start)
        after == skip_whitespace(number.rest)
        second_alpha == read_alpha(after)
        second_number == read_number(after)
    IN IF alpha.token # <<>>
       THEN parse_pattern_alpha_number(size, alpha.token, alpha.rest, checks)
       ELSE IF number.token # <<>>
       THEN IF second_alpha.token # <<>>
            THEN parse_pattern_number_alpha(size, number.token, second_alpha.token,
                                            second_alpha.rest, checks)
            ELSE IF second_number.token # <<>>
            THEN parse_pattern_number_number(size, number.token,
                                             second_number.token,
                                             second_number.rest, checks)
            ELSE IF is_end(after)
            THEN parse_pattern_number(size, number.token, after, checks)
            ELSE NoIndex
       ELSE NoIndex

\* Board::parse_index: Option<usize>, or the panic that took its place
parse_index(size, input, checks) ==
    LET index == parse(size, input, checks)
    IN IF index.kind = "Some"
       THEN [kind |-> "Some", index |-> to_index(index.row, index.column, size)]
       ELSE index

\* format!("{}", n) of a usize
RECURSIVE ToDecimal(_)
ToDecimal(n) ==
    IF n < 10 THEN <<DigitChars[n + 1]>>
    ELSE Append(ToDecimal(n \div 10), DigitChars[(n % 10) + 1])

\* Board::index_to_position: the loop that builds alpha
RECURSIVE PositionAlphaLoop(_, _)
PositionAlphaLoop(x, alpha) ==
    LET pushed == Append(alpha, UpperLetters[(x % 26) + 1])
    IN IF x \div 26 = 0 THEN pushed ELSE PositionAlphaLoop(x \div 26, pushed)

\* Board::index_to_position
index_to_position(size, index) ==
    IF size * size <= index THEN NoText
    ELSE SomeText(PositionAlphaLoop(index % size, <<>>)
                  \o ToDecimal((index \div size) + 1))

---------------------------------------------------------------------------
(* Game                                                                    *)

NoCall == [kind |-> "None"]

\* The win test as "at least the threshold"
IsWinningMove_AtLeast(consecutive_stones, threshold) ==
    Len(consecutive_stones) > 0 /\ consecutive_stones[1] >= threshold

\* consecutive_stones.first().copied() == Some(self.max_consecutive_stones)
IsWinningMove(consecutive_stones, threshold) ==
    Len(consecutive_stones) > 0 /\ consecutive_stones[1] = threshold

\* The game_result assignment with the full-board test made first
ResultAfterMove_DrawFirst(old, is_winning_move, turn_was, new_count, max_idx) ==
    IF new_count = max_idx THEN Draw
    ELSE IF is_winning_move THEN Win(turn_was)
    ELSE old

\* the game_result assignment of place_stone
ResultAfterMove(old, is_winning_move, turn_was, new_count, max_idx) ==
    IF is_winning_move THEN Win(turn_was)
    ELSE IF new_count = max_idx THEN Draw
    ELSE old

\* PlaceStoneResult.stone, built after self.turn was advanced
ResultStone(turn_now) == TurnToCell(turn_now)

\* max_allowed_index as the last valid index
MaxAllowedIndex_LastIndex(b) == b.board_size * b.board_size - 1

\* let max_allowed_index = self.board.board_size() * self.board.board_size()
MaxAllowedIndex(b) == b.board_size * b.board_size

\* Game::new with a history that starts empty
GameNew_EmptyHistory(n, w) ==
    /\ board_size = n
    /\ max_consecutive_stones = w
    /\ turn = "Black"
    /\ turn_count = 0
    /\ history = << >>
    /\ game_result = NoResult
    /\ board = BoardNew(n)

\* Game::new
GameNew(n, w) ==
    /\ board_size = n
    /\ max_consecutive_stones = w
    /\ turn = "Black"
    /\ turn_count = 0
    /\ history = << <<"Black", BoardNew(n)>> >>
    /\ game_result = NoResult
    /\ board = BoardNew(n)

\* Game::place_stone
place_stone(index) ==
    LET max_allowed_index == MaxAllowedIndex(board) IN
    IF ~InRange(board, index)
    THEN /\ ret' = [kind |-> "InvalidIndex", index |-> index,
                    max_allowed_index |-> max_allowed_index]
         /\ UNCHANGED <<board_size, max_consecutive_stones, turn, turn_count,
                        history, game_result, board>>
    ELSE IF ~is_empty(board.cells[index])
    THEN /\ ret' = [kind |-> "StoneAlreadyPlaced", index |-> index,
                    stone |-> board.cells[index]]
         /\ UNCHANGED <<board_size, max_consecutive_stones, turn, turn_count,
                        history, game_result, board>>
    ELSE LET board_was == board
             new_board == set_cell(board, index, TurnToCell(turn))
             consecutive_stones == count_consecutive_cells(new_board, index, turn)
             is_winning_move ==
                 IsWinningMove(consecutive_stones, max_consecutive_stones)
             turn_was == turn
             new_turn == TurnNext(turn)
             new_count == turn_count + 1
             new_result == ResultAfterMove(game_result, is_winning_move, turn_was,
                                           new_count, max_allowed_index)
         IN /\ board' = new_board
            /\ turn' = new_turn
            /\ turn_count' = new_count
            /\ game_result' = new_result
            /\ history' = Append(history, <<new_turn, new_board>>)
            /\ ret' = [kind |-> "Ok", index |-> index,
                       stone |-> ResultStone(new_turn),
                       turn_was |-> turn_was, board_was |-> board_was,
                       consecutive_stones |-> consecutive_stones,
                       game_result |-> new_result]
            /\ UNCHANGED <<board_size, max_consecutive_stones>>

\* No text is being parsed or formatted.
TextIdle ==
    /\ overflow_checks = FALSE
    /\ text_size = 0
    /\ text_index = 0
    /\ text = NotFormatted
    /\ parsed = NoCall
    /\ pvp = NoCall

\* No replay is being sampled.
ReplayIdle ==
    /\ agent_turn = "Black"
    /\ step = NoCall
    /\ call = NoCall
    /\ frames = NoCall

\* No reward or estimator call was made.
EstimatorIdle ==
    /\ supplied = NoCall
    /\ reward = NoCall
    /\ estimate = NoCall

\* No training is running.
TrainIdle ==
    /\ options = NoCall
    /\ epoch = 0
    /\ iteration = 0
    /\ generated = 0
    /\ epsilon = 0
    /\ replay_buffer = <<>>
    /\ appended = <<>>
    /\ phase = "idle"
    /\ batch = <<>>
    /\ training_step = 0
    /\ copied = NoCall
    /\ evaluation = NoCall
    /\ var_store = NoCall
    /\ optimizer = {}

\* The indices place_stone is called with.
CallIndices == 0..(board_size * board_size - 1 + IndexOver)

Init ==
    /\ \E n \in BoardSizes : \E w \in WinLengths : GameNew(n, w)
    /\ ret = NoCall
    /\ probe_board = BoardNew(0)
    /\ probe = NoCall
    /\ TextIdle
    /\ ReplayIdle
    /\ EstimatorIdle
    /\ TrainIdle

\* The calls explored: successful ones up to MaxTurns moves, failing ones on
\* games of up to MaxErrTurns moves.
CallExplored(index) ==
    IF InRange(board, index) /\ is_empty(board.cells[index])
    THEN turn_count < MaxTurns
    ELSE turn_count <= MaxErrTurns

PlaceStone ==
    /\ \E index \in CallIndices : CallExplored(index) /\ place_stone(index)
    /\ UNCHANGED <<probe_vars, text_vars, replay_vars, estimator_vars, train_vars>>

Next == PlaceStone

Spec == Init /\ [][Next]_vars

---------------------------------------------------------------------------
(* count_consecutive_cells on free-standing boards                         *)

AllBoards(n) == { [board_size |-> n, cells |-> c] : c \in [0..(n * n - 1) -> Cells] }

InitCount ==
    /\ GameNew(0, 0)
    /\ ret = NoCall
    /\ \E n \in ProbeSizes : probe_board \in AllBoards(n)
    /\ probe = NoCall
    /\ TextIdle
    /\ ReplayIdle
    /\ EstimatorIdle
    /\ TrainIdle

CountCells ==
    /\ probe = NoCall
    /\ \E index \in 0..(NumCells(probe_board) - 1 + IndexOver) : \E t \in Turns :
          probe' = [kind |-> "Count", index |-> index, turn |-> t,
                    result |-> count_consecutive_cells(probe_board, index, t)]
    /\ UNCHANGED probe_board
    /\ UNCHANGED <<game_vars, text_vars, replay_vars, estimator_vars, train_vars>>

NextCount == CountCells

SpecCount == InitCount /\ [][NextCount]_vars

---------------------------------------------------------------------------
(* parse_index on input texts; index_to_position and back                  *)

\* A letter in each case, the digits 0, 1 and 2, a blank and a character that
\* is neither letter, digit nor whitespace.
TextAlphabet == {"a", "B", "0", "1", "2", " ", ","}

ShortTexts == UNION { [1..n -> TextAlphabet] : n \in 0..MaxTextLen }

\* The rejected and the whitespace inputs of the parser's tests, numbers at
\* and above usize::MAX, and a letter run whose value overflows.
ExtraTexts ==
    { << "h", "e", "l", "l", "o", ",", " ", "w", "o", "r", "l", "d", "!", " ",
         "1", "5", "a" >>,
      << "1", "5", " ", "1", " ", "1", "5" >>,
      << "\t", "1", "5", "\t", "1", "5", "\t" >>,
      << "2", "1", "4", "7", "4", "8", "3", "6", "4", "7" >>,
      << "2", "1", "4", "7", "4", "8", "3", "6", "4", "8" >>,
      << "a", "9", "9", "9", "9", "9", "9", "9", "9", "9", "9", "9" >>,
      << "z", "z", "z", "z", "z", "z", "z", "1" >> }

GameIdle ==
    /\ GameNew(0, 0)
    /\ ret = NoCall
    /\ probe_board = BoardNew(0)
    /\ probe = NoCall

InitParse ==
    /\ GameIdle
    /\ ReplayIdle
    /\ EstimatorIdle
    /\ TrainIdle
    /\ overflow_checks \in BOOLEAN
    /\ text_size \in ParseSizes
    /\ text_index = 0
    /\ \E t \in ShortTexts \cup ExtraTexts : text = SomeText(t)
    /\ parsed = NoCall
    /\ pvp = NoCall

\* board.parse_index(text)
ParseIndex ==
    /\ text.kind = "Some"
    /\ parsed = NoCall
    /\ parsed' = [index |-> parse(text_size, text.text, overflow_checks),
                  ret |-> parse_index(text_size, text.text, overflow_checks)]
    /\ UNCHANGED <<overflow_checks, text_size, text_index, text, pvp>>
    /\ UNCHANGED <<game_vars, probe_vars, replay_vars, estimator_vars, train_vars>>

NextParse == ParseIndex

SpecParse == InitParse /\ [][NextParse]_vars

InitRoundTrip ==
    /\ GameIdle
    /\ ReplayIdle
    /\ EstimatorIdle
    /\ TrainIdle
    /\ overflow_checks \in BOOLEAN
    /\ text_size \in RoundTripSizes
    /\ text_index \in 0..(text_size * text_size - 1 + IndexOver)
    /\ text = NotFormatted
    /\ parsed = NoCall
    /\ pvp = NoCall

\* board.index_to_position(index)
IndexToPosition ==
    /\ text = NotFormatted
    /\ text' = index_to_position(text_size, text_index)
    /\ UNCHANGED <<overflow_checks, text_size, text_index, parsed, pvp>>
    /\ UNCHANGED <<game_vars, probe_vars, replay_vars, estimator_vars, train_vars>>

NextRoundTrip == IndexToPosition \/ ParseIndex

SpecRoundTrip == InitRoundTrip /\ [][NextRoundTrip]_vars

---------------------------------------------------------------------------
(* Replay: generate_history_boards (gomoku-agent/src/replay.rs)            *)

\* A Game as a value: sample_replay takes the game, changes it and returns it.
TheGame ==
    [board_size |-> board_size,
     max_consecutive_stones |-> max_consecutive_stones,
     turn |-> turn, turn_count |-> turn_count, history |-> history,
     game_result |-> game_result, board |-> board]

\* Game::new as a value
NewGame(n, w) ==
    [board_size |-> n, max_consecutive_stones |-> w,
     turn |-> "Black", turn_count |-> 0,
     history |-> << <<"Black", BoardNew(n)>> >>,
     game_result |-> NoResult, board |-> BoardNew(n)]

\* The game variables become the game g.
GameBecomes(g) ==
    /\ board_size' = g.board_size
    /\ max_consecutive_stones' = g.max_consecutive_stones
    /\ turn' = g.turn
    /\ turn_count' = g.turn_count
    /\ history' = g.history
    /\ game_result' = g.game_result
    /\ board' = g.board

\* Game::place_stone on a game value: the game afterwards and the Result.
PlaceStoneOn(g, index) ==
    LET max_allowed_index == MaxAllowedIndex(g.board) IN
    IF ~InRange(g.board, index)
    THEN [game |-> g,
          ret |-> [kind |-> "InvalidIndex", index |-> index,
                   max_allowed_index |-> max_allowed_index]]
    ELSE IF ~is_empty(g.board.cells[index])
    THEN [game |-> g,
          ret |-> [kind |-> "StoneAlreadyPlaced", index |-> index,
                   stone |-> g.board.cells[index]]]
    ELSE LET board_was == g.board
             new_board == set_cell(g.board, index, TurnToCell(g.turn))
             consecutive_stones == count_consecutive_cells(new_board, index, g.turn)
             is_winning_move ==
                 IsWinningMove(consecutive_stones, g.max_consecutive_stones)
             turn_was == g.turn
             new_turn == TurnNext(g.turn)
             new_count == g.turn_count + 1
             new_result == ResultAfterMove(g.game_result, is_winning_move, turn_was,
                                           new_count, max_allowed_index)
         IN [game |-> [g EXCEPT !.board = new_board, !.turn = new_turn,
                                !.turn_count = new_count,
                                !.game_result = new_result,
                                !.history = Append(@, <<new_turn, new_board>>)],
             ret |-> [kind |-> "Ok", index |-> index,
                      stone |-> ResultStone(new_turn),
                      turn_was |-> turn_was, board_was |-> board_was,
                      consecutive_stones |-> consecutive_stones,
                      game_result |-> new_result]]

\* [(Turn, Board); 4]
HistoryFrames == 4

\* game.history().iter().rev().filter(|(turn, _)| *turn == player).take(4)
\*     .map(|(_, board)| (player, board.clone())).collect()
RECURSIVE RevFilterTake(_, _, _, _)
RevFilterTake(h, i, player, boards) ==
    IF i = 0 \/ Len(boards) = HistoryFrames THEN boards
    ELSE IF h[i][1] = player
         THEN RevFilterTake(h, i - 1, player, Append(boards, <<player, h[i][2]>>))
         ELSE RevFilterTake(h, i - 1, player, boards)

\* while boards.len() < 4 { boards.insert(0, (player, Board::new(..))) }
RECURSIVE PadFront(_, _, _)
PadFront(boards, player, n) ==
    IF Len(boards) < HistoryFrames
    THEN PadFront(<< <<player, BoardNew(n)>> >> \o boards, player, n)
    ELSE boards

\* generate_history_boards without the padding loop
generate_history_boards_NoPadding(player, g) ==
    RevFilterTake(g.history, Len(g.history), player, <<>>)

\* generate_history_boards
generate_history_boards(player, g) ==
    PadFront(RevFilterTake(g.history, Len(g.history), player, <<>>),
             player, g.board_size)

\* The first `choices` legal moves of a board.
CandidateMoves(b, choices) ==
    LET moves == legal_moves(b)
    IN { moves[k] : k \in { j \in 1..Len(moves) : j <= choices } }

InitHistory ==
    /\ \E n \in BoardSizes : \E w \in WinLengths : GameNew(n, w)
    /\ ret = NoCall
    /\ probe_board = BoardNew(0)
    /\ probe = NoCall
    /\ TextIdle
    /\ ReplayIdle
    /\ EstimatorIdle
    /\ TrainIdle

\* game.place_stone(index) with a legal index
PlayMove ==
    /\ frames = NoCall
    /\ \E index \in CandidateMoves(board, MoveChoices) : place_stone(index)
    /\ UNCHANGED <<probe_vars, text_vars, replay_vars, estimator_vars, train_vars>>

\* generate_history_boards(player, &game)
GenerateHistoryBoards ==
    /\ frames = NoCall
    /\ \E player \in Turns :
          frames' = [kind |-> "Frames", player |-> player,
                     boards |-> generate_history_boards(player, TheGame)]
    /\ UNCHANGED <<agent_turn, step, call>>
    /\ UNCHANGED <<game_vars, probe_vars, text_vars, estimator_vars, train_vars>>

NextHistory == PlayMove \/ GenerateHistoryBoards

SpecHistory == InitHistory /\ [][NextHistory]_vars

---------------------------------------------------------------------------
(* Replay: sample_replay (gomoku-agent/src/replay.rs), and the TD target   *)
(* of the trainer (gomoku-agent/src/agents/gomoku_ddqn/trainer.rs)         *)

\* Option<[(Turn, Board); 4]>
NoBoards == [kind |-> "None"]

SomeBoards(boards) == [kind |-> "Some", boards |-> boards]

\* the call panicked: an unwrap of Err or of None
ReplayPanic == [kind |-> "Panic"]

\* no move was made
NoMove == [kind |-> "None"]

SomeMove(index) == [kind |-> "Some", index |-> index]

\* RandomPlayer::generate_move, and legal_moves.choose(&mut rng) of the
\* exploring learner: a legal move.
RandomMoves(g) == CandidateMoves(g.board, ReplayChoices)

\* agent.generate_move(&game): the index a `dyn Agent` answers, which is a
\* legal move, an occupied cell, or an index outside the board.
AgentMoves(g) ==
    LET occupied == illegal_moves(g.board)
    IN RandomMoves(g)
       \cup { occupied[k] : k \in { j \in 1..Len(occupied) : j = 1 } }
       \cup { NumCells(g.board) }

\* compute_nonterminal_reward with the defensive bonus from a run of 3
compute_nonterminal_reward_DefenceFromThree(result) ==
    IF /\ Len(result.consecutive_stones) > 0
       /\ result.consecutive_stones[1] \in 3..5
    THEN 1
    ELSE LET virtual_board == set_cell(result.board_was, result.index,
                                       TurnToCell(TurnNext(result.turn_was)))
             opponent_consecutive_stones ==
                 count_consecutive_cells(virtual_board, result.index,
                                         TurnNext(result.turn_was))
         IN IF /\ Len(opponent_consecutive_stones) > 0
               /\ opponent_consecutive_stones[1] \in 3..5
            THEN 1
            ELSE 0

\* compute_nonterminal_reward
compute_nonterminal_reward(result) ==
    IF /\ Len(result.consecutive_stones) > 0
       /\ result.consecutive_stones[1] \in 3..5
    THEN 1
    ELSE LET virtual_board == set_cell(result.board_was, result.index,
                                       TurnToCell(TurnNext(result.turn_was)))
             opponent_consecutive_stones ==
                 count_consecutive_cells(virtual_board, result.index,
                                         TurnNext(result.turn_was))
         IN IF /\ Len(opponent_consecutive_stones) > 0
               /\ opponent_consecutive_stones[1] \in 4..5
            THEN 1
            ELSE 0

\* A call handing back the opponent's colour as the learner's turn
Returned_OtherTurn(g, learner, the_step, moved_on, agent_action, opponent_action) ==
    [game |-> g, agent_turn |-> TurnNext(learner), step |-> the_step,
     call |-> [kind |-> "Call", moved_on |-> moved_on,
               agent_action |-> agent_action,
               opponent_action |-> opponent_action]]

\* What a call hands back: the game, the learner's turn, the step, and the
\* record of what the call did (the game the learner moved on and the moves).
Returned(g, learner, the_step, moved_on, agent_action, opponent_action) ==
    [game |-> g, agent_turn |-> learner, step |-> the_step,
     call |-> [kind |-> "Call", moved_on |-> moved_on,
               agent_action |-> agent_action,
               opponent_action |-> opponent_action]]

\* The call panics: nothing is returned.
Panics(g, learner) ==
    [game |-> g, agent_turn |-> learner, step |-> ReplayPanic, call |-> NoCall]

\* The step of a learner's move that ends the game, with the reward of a
\* lost game
StepAgentEnds_Punished(result_after_agent, agent_action, boards) ==
    [kind |-> "Step",
     turn |-> result_after_agent.turn_was,
     action |-> agent_action,
     boards |-> boards,
     next_boards |-> NoBoards,
     game_result |-> result_after_agent.game_result,
     reward |-> -100]

\* sample_replay, lines 69-82: the learner's move ended the game
StepAgentEnds(result_after_agent, agent_action, boards) ==
    [kind |-> "Step",
     turn |-> result_after_agent.turn_was,
     action |-> agent_action,
     boards |-> boards,
     next_boards |-> NoBoards,
     game_result |-> result_after_agent.game_result,
     reward |-> 100]

\* the step of an opponent's reply that ended the game, carrying the
\* learner's turn
StepOpponentEnds_LearnerTurn(result_after_opponent, opponent_action, boards) ==
    [kind |-> "Step",
     turn |-> TurnNext(result_after_opponent.turn_was),
     action |-> opponent_action,
     boards |-> boards,
     next_boards |-> NoBoards,
     game_result |-> result_after_opponent.game_result,
     reward |-> -100]

\* sample_replay, lines 92-105: the opponent's reply ended the game
StepOpponentEnds(result_after_opponent, opponent_action, boards) ==
    [kind |-> "Step",
     turn |-> result_after_opponent.turn_was,
     action |-> opponent_action,
     boards |-> boards,
     next_boards |-> NoBoards,
     game_result |-> result_after_opponent.game_result,
     reward |-> -100]

\* sample_replay, lines 107-122: neither move ended the game
StepGoesOn(result_after_agent, agent_action, boards, g) ==
    [kind |-> "Step",
     turn |-> result_after_agent.turn_was,
     action |-> agent_action,
     boards |-> boards,
     next_boards |-> SomeBoards(generate_history_boards(g.turn, g)),
     game_result |-> result_after_agent.game_result,
     reward |-> compute_nonterminal_reward(result_after_agent)]

\* sample_replay from line 84: the opponent replies; `agent_placed` is the
\* learner's place_stone, made on the game `moved_on`.
OpponentReplies(learner, moved_on, boards, agent_placed) ==
    IF RandomMoves(agent_placed.game) = {} THEN { Panics(moved_on, learner) }
    ELSE { LET result_after_agent == agent_placed.ret
               result_after_opponent == placed.ret
               opponent_action == placed.ret.index
           IN IF is_some(result_after_opponent.game_result)
              THEN Returned(placed.game, learner,
                            StepOpponentEnds(result_after_opponent,
                                             opponent_action, boards),
                            moved_on, result_after_agent.index,
                            SomeMove(opponent_action))
              ELSE Returned(placed.game, learner,
                            StepGoesOn(result_after_agent,
                                       result_after_agent.index, boards,
                                       placed.game),
                            moved_on, result_after_agent.index,
                            SomeMove(opponent_action)) :
           placed \in { PlaceStoneOn(agent_placed.game, opponent_action) :
                        opponent_action \in RandomMoves(agent_placed.game) } }

\* sample_replay from line 66: the learner's place_stone and what follows
AfterAgentMove(g, learner, boards, placed) ==
    LET result_after_agent == placed.ret
    IN IF result_after_agent.kind # "Ok" THEN { Panics(g, learner) }
       ELSE IF is_some(result_after_agent.game_result)
       THEN { Returned(placed.game, learner,
                       StepAgentEnds(result_after_agent,
                                     result_after_agent.index, boards),
                       g, result_after_agent.index, NoMove) }
       ELSE OpponentReplies(learner, g, boards, placed)

\* sample_replay from line 58: the learner moves
AgentPlays(g, learner, explores) ==
    LET choices == IF explores THEN RandomMoves(g) ELSE AgentMoves(g)
    IN IF choices = {} THEN { Panics(g, learner) }
       ELSE UNION { AfterAgentMove(g, learner, bp[1], bp[2]) :
                    bp \in { generate_history_boards(learner, g) }
                           \X { PlaceStoneOn(g, agent_action) :
                                agent_action \in choices } }

\* sample_replay, lines 48-56: the opponent moves first when it is not the
\* learner's turn
OpponentFirst(g, learner, explores) ==
    IF g.turn # learner
    THEN IF RandomMoves(g) = {} THEN { Panics(g, learner) }
         ELSE UNION { AgentPlays(moved, learner, explores) :
                      moved \in { PlaceStoneOn(g, action).game :
                                  action \in RandomMoves(g) } }
    ELSE AgentPlays(g, learner, explores)

\* sample_replay without the reset of lines 35-46
sample_replay_NoReset(g, learner) ==
    UNION { OpponentFirst(g, learner, explores) : explores \in BOOLEAN }

\* sample_replay(game, agent_turn, agent, Opponent::Random, epsilon): what the
\* call can return, over the coin of the reset, the coin of the exploration
\* and the moves chosen.
sample_replay(g, learner) ==
    IF is_some(g.game_result)
    THEN UNION { OpponentFirst(NewGame(g.board_size, g.max_consecutive_stones),
                               new_agent_turn, explores) :
                 <<new_agent_turn, explores>> \in Turns \X BOOLEAN }
    ELSE UNION { OpponentFirst(g, learner, explores) : explores \in BOOLEAN }

\* if step.game_result.is_some() { 1.0 } else { 0.0 }, always 0
IsDone_Never(the_step) == 0

\* if step.game_result.is_some() { 1.0 } else { 0.0 }
IsDone(the_step) == IF is_some(the_step.game_result) THEN 1 ELSE 0

\* step.next_boards.as_ref().unwrap_or(&step.boards)
NextFrames(the_step) ==
    IF the_step.next_boards.kind = "Some" THEN the_step.next_boards.boards
    ELSE the_step.boards

\* compute_td_target for one step: r + (1.0 - is_done) * gamma * target_q
compute_td_target(the_step, gamma, target_q) ==
    the_step.reward + (1 - IsDone(the_step)) * gamma * target_q

InitReplay ==
    /\ \E n \in ReplaySizes : \E w \in ReplayWinLengths : GameNew(n, w)
    /\ ret = NoCall
    /\ probe_board = BoardNew(0)
    /\ probe = NoCall
    /\ TextIdle
    /\ agent_turn \in Turns
    /\ step = NoCall
    /\ call = NoCall
    /\ frames = NoCall
    /\ EstimatorIdle
    /\ TrainIdle

\* (game, agent_turn, replay_step) = sample_replay(game, agent_turn, ..)
SampleReplay ==
    /\ step # ReplayPanic
    /\ estimate = NoCall
    /\ \E g \in { TheGame } : \E returned \in sample_replay(g, agent_turn) :
          /\ GameBecomes(returned.game)
          /\ agent_turn' = returned.agent_turn
          /\ step' = returned.step
          /\ call' = returned.call
    /\ supplied' = [kind |-> "Supplied", finished |-> is_some(game_result),
                    agent_turn |-> agent_turn]
    /\ UNCHANGED <<ret, frames, reward, estimate>>
    /\ UNCHANGED <<probe_vars, text_vars, train_vars>>

NextReplay == SampleReplay

SpecReplay == InitReplay /\ [][NextReplay]_vars

---------------------------------------------------------------------------
(* compute_nonterminal_reward after a move (SpecReward)                    *)

\* The cells of row RewardLine and of column RewardLine, without the cell
\* where they cross.
CrossCells(n) ==
    { i \in 0..(n * n - 1) :
        (i \div n = RewardLine) # (i % n = RewardLine) }

\* The elements of a set of numbers, ascending.
RECURSIVE Ascending(_)
Ascending(S) ==
    IF S = {} THEN <<>>
    ELSE LET least == CHOOSE v \in S : \A u \in S : v <= u
         IN <<least>> \o Ascending(S \ {least})

\* The game after the moves `first` and `second` played in turn, the side to
\* move playing `first`.
RECURSIVE PlayAll(_, _, _)
PlayAll(g, first, second) ==
    IF first = <<>> THEN g
    ELSE PlayAll(PlaceStoneOn(g, Head(first)).game, second, Tail(first))

\* The games whose stones are the colouring c of the cross cells: Black and
\* White placed them in turn.
CrossGames(n, w) ==
    { PlayAll(NewGame(n, w), Ascending({ i \in DOMAIN c : c[i] = "Black" }),
              Ascending({ i \in DOMAIN c : c[i] = "White" })) :
      c \in { d \in [CrossCells(n) -> Cells] :
                LET blacks == Cardinality({ i \in DOMAIN d : d[i] = "Black" })
                    whites == Cardinality({ i \in DOMAIN d : d[i] = "White" })
                IN blacks = whites \/ blacks = whites + 1 } }

InitReward ==
    /\ \E n \in RewardSizes : \E w \in RewardWinLengths :
          \E g \in CrossGames(n, w) :
              /\ board_size = g.board_size
              /\ max_consecutive_stones = g.max_consecutive_stones
              /\ turn = g.turn
              /\ turn_count = g.turn_count
              /\ history = g.history
              /\ game_result = g.game_result
              /\ board = g.board
    /\ ret = NoCall
    /\ probe_board = BoardNew(0)
    /\ probe = NoCall
    /\ TextIdle
    /\ ReplayIdle
    /\ EstimatorIdle
    /\ TrainIdle

\* let result = game.place_stone(index).unwrap();
\* let reward = compute_nonterminal_reward(&result);
ComputeReward ==
    /\ reward = NoCall
    /\ \E index \in CandidateMoves(board, NumCells(board)) \cap
                    (CrossCells(board_size)
                     \cup {RewardLine * board_size + RewardLine}) :
          \E placed \in { PlaceStoneOn(TheGame, index) } :
              /\ GameBecomes(placed.game)
              /\ ret' = placed.ret
              /\ reward' = [kind |-> "Reward", result |-> placed.ret,
                            value |-> compute_nonterminal_reward(placed.ret)]
    /\ UNCHANGED <<supplied, estimate>>
    /\ UNCHANGED <<probe_vars, text_vars, replay_vars, train_vars>>

NextReward == ComputeReward

SpecReward == InitReward /\ [][NextReward]_vars

---------------------------------------------------------------------------
(* The estimator's arg-max: GomokuDDQNAgent::next_move (agent.rs) and the  *)
(* action of the TD target (trainer.rs, loss::compute_td_target)           *)

\* The outputs of the network the model is run with, one score per cell: a
\* single peak at each cell, and scores rising and falling with the index.
ScoreVectors(n) ==
    { [i \in 0..(n * n - 1) |-> IF i = peak THEN 1 ELSE 0] :
        peak \in 0..(n * n - 1) }
    \cup { [i \in 0..(n * n - 1) |-> i], [i \in 0..(n * n - 1) |-> n * n - i] }

\* output.index_select(1, &legal_moves)
index_select(output, indices) == [k \in 1..Len(indices) |-> output[indices[k]]]

\* Tensor::argmax: the position, from 0, of the first maximal value
argmax(values) ==
    (CHOOSE k \in 1..Len(values) :
        /\ \A j \in 1..Len(values) : values[j] <= values[k]
        /\ \A j \in 1..(k - 1) : values[j] < values[k]) - 1

\* GomokuDDQNAgent::next_move: Ok(action), or a panic inside argmax when no
\* cell is empty
next_move(g, output) ==
    LET legal_moves_tensor == legal_moves(g.board)
        legal_q_values == index_select(output, legal_moves_tensor)
    IN IF Len(legal_q_values) = 0 THEN [kind |-> "Panic"]
       ELSE [kind |-> "Ok", action |-> argmax(legal_q_values)]

\* Iterator::max_by over (action, value) pairs: the last maximal pair
RECURSIVE max_by(_, _, _)
max_by(pairs, k, best) ==
    IF k > Len(pairs) THEN best
    ELSE max_by(pairs, k + 1,
                IF pairs[k][2] >= best[2] THEN pairs[k] ELSE best)

\* compute_td_target, lines 218-226: the arg-max over the legal moves of
\* `step.boards.last().unwrap().1`
best_action(the_step, action_values) ==
    LET board_of_step == the_step.boards[Len(the_step.boards)][2]
        legal == legal_moves(board_of_step)
        pairs == [k \in 1..Len(legal) |-> <<legal[k], action_values[legal[k]]>>]
    IN IF Len(pairs) = 0 THEN [kind |-> "Panic"]
       ELSE [kind |-> "Ok", action |-> max_by(pairs, 2, pairs[1])[1]]

InitEstimate ==
    /\ \E n \in ReplaySizes : \E w \in ReplayWinLengths : GameNew(n, w)
    /\ ret = NoCall
    /\ probe_board = BoardNew(0)
    /\ probe = NoCall
    /\ TextIdle
    /\ agent_turn \in Turns
    /\ step = NoCall
    /\ call = NoCall
    /\ frames = NoCall
    /\ EstimatorIdle
    /\ TrainIdle

\* let action = agent.next_move(&game).unwrap();
\* let result = game.place_stone(action)
NextMove ==
    /\ estimate = NoCall
    /\ step # ReplayPanic
    /\ game_result = NoResult
    /\ \E output \in ScoreVectors(board_size) :
          \E moved \in { next_move(TheGame, output) } :
              estimate' = [kind |-> "NextMove", output |-> output,
                           moved |-> moved,
                           placed |-> IF moved.kind = "Ok"
                                      THEN PlaceStoneOn(TheGame, moved.action).ret
                                      ELSE NoCall]
    /\ UNCHANGED <<supplied, reward>>
    /\ UNCHANGED <<game_vars, probe_vars, text_vars, replay_vars, train_vars>>

\* compute_td_target for the step of the last sample_replay call: the action
\* the target network's Q value is gathered at
TargetAction ==
    /\ estimate = NoCall
    /\ step # NoCall /\ step # ReplayPanic
    /\ \E action_values \in ScoreVectors(board_size) :
          estimate' = [kind |-> "Target", action_values |-> action_values,
                       best |-> best_action(step, action_values)]
    /\ UNCHANGED <<supplied, reward>>
    /\ UNCHANGED <<game_vars, probe_vars, text_vars, replay_vars, train_vars>>

NextEstimate == SampleReplay \/ NextMove \/ TargetAction

SpecEstimate == InitEstimate /\ [][NextEstimate]_vars

---------------------------------------------------------------------------
(* GomokuDDQNTrainer::train (trainer.rs)                                   *)

\* TrainOptions, and `epoches`, as train is run with
BufferSizes == {0, 1, 2}

BatchSizes == {1, 2}

IterationCounts == {1, 2}

TrainingStepCounts == {1, 2}

EpochCounts == {2}

TrainWinLengths == {2}

TrainOptionSets ==
    [epoches : EpochCounts,
     replay_buffer_size : BufferSizes,
     batch_size : BatchSizes,
     iterations : IterationCounts,
     training_steps : TrainingStepCounts,
     epsilon : {Scale \div 2},
     epsilon_decay : {Scale \div 2},
     epsilon_min : {1},
     gamma : {Scale - 1},
     tau : {Scale \div 2}]

\* the paths the two models are created under in agent.var_store()
OnlinePath == "gomoku-ddqn-agent"

TargetPath == "train-target"

\* Model::new(path, config): the model's variables are added to the store
\* the path belongs to, trainable, with their initial values
ModelNew(store, path, initial) ==
    [p \in DOMAIN store \cup {path} |->
        IF p = path THEN [value |-> initial, trainable |-> TRUE] ELSE store[p]]

\* VarStore::new
EmptyStore == [p \in {} |-> [value |-> 0, trainable |-> TRUE]]

\* blend_weights: lhs * (1.0 - weight) + rhs * weight
blend_weights(lhs, rhs, weight) == (lhs * (Scale - weight) + rhs * weight) \div Scale

\* Option<f64>
NoWeight == [kind |-> "None"]

SomeWeight(weight) == [kind |-> "Some", value |-> weight]

\* Model::copy_weights_from(from, weight), on the variables of `to`
copy_weights_from(store, to, from, weight) ==
    LET w == IF weight.kind = "None" THEN Scale ELSE weight.value IN
    [store EXCEPT ![to].value = blend_weights(store[to].value, store[from].value, w)]

\* Adam::default().build(agent.var_store(), learning_rate): the optimizer
\* handles the trainable variables of the store
build(store) == { p \in DOMAIN store : store[p].trainable }

\* the store when train has built the target: the agent's model from
\* GomokuDDQNAgent::new, then lines 59-63
StoreAtStart ==
    copy_weights_from(
        ModelNew(ModelNew(EmptyStore, OnlinePath, 0), TargetPath, Scale),
        TargetPath, OnlinePath, NoWeight)

\* every step is kept
keeps_Always(replay_step, new_agent_turn) == TRUE

\* every step is skipped
keeps_Never(replay_step, new_agent_turn) == FALSE

\* replay_step.turn != agent_turn, negated: the step is kept
keeps(replay_step, new_agent_turn) == replay_step.turn = new_agent_turn

\* lines 96-102 with pop_back for pop_front
push_back_EvictsNewest(buffer, size, replay_step) ==
    IF Len(buffer) # 0 /\ size <= Len(buffer)
    THEN Append(SubSeq(buffer, 1, Len(buffer) - 1), replay_step)
    ELSE Append(buffer, replay_step)

\* lines 96-102: pop_front when the buffer is not empty and holds
\* replay_buffer_size steps or more, then push_back
push_back(buffer, size, replay_step) ==
    IF Len(buffer) # 0 /\ size <= Len(buffer)
    THEN Append(Tail(buffer), replay_step)
    ELSE Append(buffer, replay_step)

\* epsilon *= epsilon_decay, without the floor
decayed_NoFloor(eps, opts) == (eps * opts.epsilon_decay) \div Scale

\* epsilon *= epsilon_decay; epsilon = epsilon.max(epsilon_min)
decayed(eps, opts) ==
    LET multiplied == (eps * opts.epsilon_decay) \div Scale
    IN IF multiplied >= opts.epsilon_min THEN multiplied ELSE opts.epsilon_min

\* sequences of `amount` positions of the buffer, repetitions allowed
choose_multiple_Repeating(len, amount) == [1..amount -> 1..len]

\* IteratorRandom::choose_multiple: `amount` distinct elements, in any order
choose_multiple(len, amount) ==
    { chosen \in [1..amount -> 1..len] :
        \A j, k \in 1..amount : j # k => chosen[j] # chosen[k] }

\* lines 111-117
draw_batch(len, batch_size) ==
    IF batch_size <= len THEN choose_multiple(len, batch_size)
    ELSE { [k \in 1..len |-> k] }

\* the change optimizer.step() makes to a variable that has a gradient, in
\* units of 1/Scale
Updates == {1}

\* loss.backward(): the variables the loss depends on. The online model's
\* are reached through q and action_values; the target's through target_q,
\* which is multiplied by (1.0 - is_done) * gamma.
HasGradient(path, the_batch, buffer, opts) ==
    \/ path = OnlinePath
    \/ /\ path = TargetPath
       /\ opts.gamma # 0
       /\ \E k \in 1..Len(the_batch) : IsDone(buffer[the_batch[k]]) = 0

\* optimizer.step(): every variable of the optimizer that has a gradient moves
optimizer_step(store, opt, the_batch, buffer, opts) ==
    LET moved == { p \in opt : HasGradient(p, the_batch, buffer, opts) } IN
    { [p \in DOMAIN store |->
          IF p \in moved THEN [store[p] EXCEPT !.value = @ - update[p]]
          ELSE store[p]] :
        update \in [moved -> Updates] }

InitTrain ==
    /\ \E w \in TrainWinLengths : GameNew(2, w)
    /\ ret = NoCall
    /\ probe_board = BoardNew(0)
    /\ probe = NoCall
    /\ TextIdle
    /\ agent_turn \in Turns
    /\ step = NoCall
    /\ call = NoCall
    /\ frames = NoCall
    /\ EstimatorIdle
    /\ options \in TrainOptionSets
    /\ epoch = 0
    /\ iteration = 0
    /\ generated = 0
    /\ epsilon = options.epsilon
    /\ replay_buffer = <<>>
    /\ appended = <<>>
    /\ phase = "environment"
    /\ batch = <<>>
    /\ training_step = 0
    /\ copied = NoCall
    /\ evaluation = NoCall
    /\ var_store = StoreAtStart
    /\ optimizer = build(StoreAtStart)

\* the training phase entered at the optimizer, with no batch drawn
AfterEnvironment_NoBatch(opts) == "optimize"

\* where train goes when the while loop of the environment phase is left
AfterEnvironment(opts) ==
    IF 0 < opts.training_steps THEN "batch" ELSE "epoch_end"

\* one pass of the while loop, lines 84-107: the call of sample_replay, the
\* skip, the bounded push, the decay of epsilon
EnvironmentIteration ==
    /\ phase = "environment"
    /\ iteration < options.iterations
    /\ generated < MaxCalls
    /\ \E g \in { TheGame } : \E returned \in sample_replay(g, agent_turn) :
          /\ GameBecomes(returned.game)
          /\ agent_turn' = returned.agent_turn
          /\ step' = returned.step
          /\ call' = returned.call
          /\ generated' = generated + 1
          /\ IF returned.step = ReplayPanic
             THEN /\ phase' = "panicked"
                  /\ UNCHANGED <<replay_buffer, appended, epsilon, iteration>>
             ELSE IF ~keeps(returned.step, returned.agent_turn)
             THEN UNCHANGED <<phase, replay_buffer, appended, epsilon, iteration>>
             ELSE /\ replay_buffer' = push_back(replay_buffer,
                                                options.replay_buffer_size,
                                                returned.step)
                  /\ appended' = Append(appended, returned.step)
                  /\ epsilon' = decayed(epsilon, options)
                  /\ iteration' = iteration + 1
                  /\ phase' = IF iteration + 1 < options.iterations
                              THEN "environment"
                              ELSE AfterEnvironment(options)
    /\ UNCHANGED <<ret, frames, options, epoch, batch, training_step,
                   var_store, optimizer,
                   copied, evaluation>>
    /\ UNCHANGED <<probe_vars, text_vars, estimator_vars>>

\* lines 111-117: the batch of a training step
DrawBatch ==
    /\ phase = "batch"
    /\ batch' \in draw_batch(Len(replay_buffer), options.batch_size)
    /\ phase' = "optimize"
    /\ UNCHANGED <<options, epoch, iteration, generated, epsilon, replay_buffer,
                   appended, training_step, var_store, optimizer,
                   copied, evaluation>>
    /\ UNCHANGED <<game_vars, probe_vars, text_vars, replay_vars, estimator_vars>>

\* lines 119-125: zero_grad, compute_loss, backward, clip_grad_norm, step
OptimizerStep ==
    /\ phase = "optimize"
    /\ var_store' \in optimizer_step(var_store, optimizer, batch, replay_buffer,
                                     options)
    /\ phase' = "blend"
    /\ UNCHANGED <<options, epoch, iteration, generated, epsilon, replay_buffer,
                   appended, batch, training_step, optimizer,
                   copied, evaluation>>
    /\ UNCHANGED <<game_vars, probe_vars, text_vars, replay_vars, estimator_vars>>

\* line 127: target.copy_weights_from(agent.model(), Some(tau)), and the end
\* of the pass of the for loop
SoftUpdate ==
    /\ phase = "blend"
    /\ var_store' = copy_weights_from(var_store, TargetPath, OnlinePath,
                                      SomeWeight(options.tau))
    /\ training_step' = training_step + 1
    /\ phase' = IF training_step + 1 < options.training_steps
                THEN "batch" ELSE "epoch_end"
    /\ UNCHANGED <<options, epoch, iteration, generated, epsilon, replay_buffer,
                   appended, batch, optimizer,
                   copied, evaluation>>
    /\ UNCHANGED <<game_vars, probe_vars, text_vars, replay_vars, estimator_vars>>

\* lines 132-154: the agent is saved and evaluated; evaluate unwraps the
\* place_stone of the agent's next_move, which panics on an occupied cell.
\* Then the next epoch starts, or train returns.
EndEpoch ==
    /\ phase = "epoch_end"
    /\ \E evaluated \in BOOLEAN :
          IF ~evaluated
          THEN /\ phase' = "panicked"
               /\ UNCHANGED <<epoch, iteration, generated, training_step>>
          ELSE /\ epoch' = epoch + 1
               /\ iteration' = 0
               /\ generated' = 0
               /\ training_step' = 0
               /\ phase' = IF epoch + 1 < options.epoches
                           THEN (IF 0 < options.iterations THEN "environment"
                                 ELSE AfterEnvironment(options))
                           ELSE "returned"
    /\ UNCHANGED <<options, epsilon, replay_buffer, appended, batch, var_store,
                   optimizer,
                   copied, evaluation>>
    /\ UNCHANGED <<game_vars, probe_vars, text_vars, replay_vars, estimator_vars>>

NextTrain ==
    \/ EnvironmentIteration
    \/ DrawBatch
    \/ OptimizerStep
    \/ SoftUpdate
    \/ EndEpoch

SpecTrain == InitTrain /\ [][NextTrain]_vars

\* train run with every kind of epsilon schedule: a first epsilon of 0.0 and
\* of 1.0, decays of 0.0, below 1.0 and above 1.0, a low and a high floor
ScheduleOptionSets ==
    [epoches : {2},
     replay_buffer_size : {1},
     batch_size : {1},
     iterations : {2},
     training_steps : {1},
     epsilon : {0, Scale},
     epsilon_decay : {0, Scale \div 2, Scale + 1},
     epsilon_min : {1, Scale - 1},
     gamma : {Scale - 1},
     tau : {Scale \div 2}]

InitSchedule ==
    /\ \E w \in TrainWinLengths : GameNew(2, w)
    /\ ret = NoCall
    /\ probe_board = BoardNew(0)
    /\ probe = NoCall
    /\ TextIdle
    /\ agent_turn \in Turns
    /\ step = NoCall
    /\ call = NoCall
    /\ frames = NoCall
    /\ EstimatorIdle
    /\ options \in ScheduleOptionSets
    /\ epoch = 0
    /\ iteration = 0
    /\ generated = 0
    /\ epsilon = options.epsilon
    /\ replay_buffer = <<>>
    /\ appended = <<>>
    /\ phase = "environment"
    /\ batch = <<>>
    /\ training_step = 0
    /\ copied = NoCall
    /\ evaluation = NoCall
    /\ var_store = StoreAtStart
    /\ optimizer = build(StoreAtStart)

SpecSchedule == InitSchedule /\ [][NextTrain]_vars

\* train on a board where a fresh game cannot end within its first three
\* moves: no line of 3 fits a board of size 2, and the fourth move draws
EnvironmentWinLengths == {3}

EnvironmentOptionSets ==
    [epoches : {2},
     replay_buffer_size : {1, 2},
     batch_size : {1},
     iterations : IterationCounts,
     training_steps : {1},
     epsilon : {Scale \div 2},
     epsilon_decay : {Scale \div 2},
     epsilon_min : {1},
     gamma : {Scale - 1},
     tau : {Scale \div 2}]

InitEnvironment ==
    /\ \E w \in EnvironmentWinLengths : GameNew(2, w)
    /\ ret = NoCall
    /\ probe_board = BoardNew(0)
    /\ probe = NoCall
    /\ TextIdle
    /\ agent_turn \in Turns
    /\ step = NoCall
    /\ call = NoCall
    /\ frames = NoCall
    /\ EstimatorIdle
    /\ options \in EnvironmentOptionSets
    /\ epoch = 0
    /\ iteration = 0
    /\ generated = 0
    /\ epsilon = options.epsilon
    /\ replay_buffer = <<>>
    /\ appended = <<>>
    /\ phase = "environment"
    /\ batch = <<>>
    /\ training_step = 0
    /\ copied = NoCall
    /\ evaluation = NoCall
    /\ var_store = StoreAtStart
    /\ optimizer = build(StoreAtStart)

SpecEnvironment == InitEnvironment /\ [][NextTrain]_vars

---------------------------------------------------------------------------
(* Model::copy_weights_from layer by layer (model.rs, nn_utils.rs)         *)

\* Option<Tensor>
NoTensor == [kind |-> "None"]

SomeTensor(tensor) == [kind |-> "Some", value |-> tensor]

\* if let (Some(bs), Some(from_bs)) = (&mut to.bs, &from.bs)
\*     { bs.copy_(&blend_weights(bs, from_bs, weight)) }
copy_optional(to, from, weight) ==
    IF to.kind = "Some" /\ from.kind = "Some"
    THEN SomeTensor(blend_weights(to.value, from.value, weight))
    ELSE to

\* copy_weights_conv2d
copy_weights_conv2d(to, from, weight) ==
    [ws |-> blend_weights(to.ws, from.ws, weight),
     bs |-> copy_optional(to.bs, from.bs, weight)]

\* copy_weights_batch_norm2d without the running statistics
copy_weights_batch_norm2d_AffineOnly(to, from, weight) ==
    [running_mean |-> to.running_mean,
     running_var |-> to.running_var,
     bs |-> copy_optional(to.bs, from.bs, weight),
     ws |-> copy_optional(to.ws, from.ws, weight)]

\* copy_weights_batch_norm2d
copy_weights_batch_norm2d(to, from, weight) ==
    [running_mean |-> blend_weights(to.running_mean, from.running_mean, weight),
     running_var |-> blend_weights(to.running_var, from.running_var, weight),
     bs |-> copy_optional(to.bs, from.bs, weight),
     ws |-> copy_optional(to.ws, from.ws, weight)]

\* copy_weights_residual_block
copy_weights_residual_block(to, from, weight) ==
    [conv1 |-> copy_weights_conv2d(to.conv1, from.conv1, weight),
     bn1 |-> copy_weights_batch_norm2d(to.bn1, from.bn1, weight),
     conv2 |-> copy_weights_conv2d(to.conv2, from.conv2, weight),
     bn2 |-> copy_weights_batch_norm2d(to.bn2, from.bn2, weight)]

\* copy_weights_linear
copy_weights_linear(to, from, weight) ==
    [ws |-> blend_weights(to.ws, from.ws, weight),
     bs |-> copy_optional(to.bs, from.bs, weight)]

\* Model::copy_weights_from(&mut self, from, weight) on the layers of a Model
copy_weights_from_model(to, from, weight) ==
    LET w == IF weight.kind = "None" THEN Scale ELSE weight.value IN
    [match_channel_conv |->
         copy_weights_conv2d(to.match_channel_conv, from.match_channel_conv, w),
     match_channel_bn |->
         copy_weights_batch_norm2d(to.match_channel_bn, from.match_channel_bn, w),
     residual_blocks |->
         [k \in 1..Len(to.residual_blocks) |->
             IF k <= Len(from.residual_blocks)
             THEN copy_weights_residual_block(to.residual_blocks[k],
                                              from.residual_blocks[k], w)
             ELSE to.residual_blocks[k]],
     fc0 |-> copy_weights_linear(to.fc0, from.fc0, w),
     fc1 |-> copy_weights_linear(to.fc1, from.fc1, w)]

\* Model::new: every tensor of the model, here with the value seed * (its
\* number among the model's tensors)
ModelWith(seed, blocks) ==
    LET conv(n) == [ws |-> seed * n, bs |-> SomeTensor(seed * (n + 1))]
        bn(n) == [running_mean |-> seed * n, running_var |-> seed * (n + 1),
                  ws |-> SomeTensor(seed * (n + 2)),
                  bs |-> SomeTensor(seed * (n + 3))]
        block(n) == [conv1 |-> conv(n), bn1 |-> bn(n + 2),
                     conv2 |-> conv(n + 6), bn2 |-> bn(n + 8)]
    IN [match_channel_conv |-> conv(1),
        match_channel_bn |-> bn(3),
        residual_blocks |-> [k \in 1..blocks |-> block(7 + 12 * (k - 1))],
        fc0 |-> conv(7 + 12 * blocks),
        fc1 |-> conv(9 + 12 * blocks)]

\* the values the models' tensors are filled with, and ModelConfig's
\* residual_blocks
ModelSeeds == {-3, 0, 2, 5}

BlockCounts == {0, 1, 2}

\* the `weight` arguments: None, and Some of 0.0 up to 1.0
BlendWeights == {NoWeight} \cup { SomeWeight(w) : w \in 0..Scale }

InitBlend ==
    /\ GameIdle
    /\ TextIdle
    /\ ReplayIdle
    /\ EstimatorIdle
    /\ options = NoCall
    /\ epoch = 0
    /\ iteration = 0
    /\ generated = 0
    /\ epsilon = 0
    /\ replay_buffer = <<>>
    /\ appended = <<>>
    /\ phase = "idle"
    /\ batch = <<>>
    /\ training_step = 0
    /\ evaluation = NoCall
    /\ var_store = NoCall
    /\ optimizer = {}
    /\ \E blocks \in BlockCounts : \E online, target \in ModelSeeds :
          copied = [kind |-> "Models", weight |-> NoWeight,
                    online |-> ModelWith(online, blocks),
                    target |-> ModelWith(target, blocks),
                    online_was |-> ModelWith(online, blocks),
                    target_was |-> ModelWith(target, blocks)]

\* target.copy_weights_from(agent.model(), weight)
CopyWeights ==
    /\ copied.kind = "Models"
    /\ \E weight \in BlendWeights :
          copied' = [kind |-> "Copy", weight |-> weight,
                     online |-> copied.online,
                     target |-> copy_weights_from_model(copied.target,
                                                        copied.online, weight),
                     online_was |-> copied.online,
                     target_was |-> copied.target]
    /\ UNCHANGED <<options, epoch, iteration, generated, epsilon, replay_buffer,
                   appended, phase, batch, training_step, evaluation, var_store,
                   optimizer>>
    /\ UNCHANGED <<game_vars, probe_vars, text_vars, replay_vars, estimator_vars>>

NextBlend == CopyWeights

SpecBlend == InitBlend /\ [][NextBlend]_vars

---------------------------------------------------------------------------
(* eval::evaluate_many and eval::evaluate (trainer.rs), as train calls     *)
(* them at the end of an epoch                                             *)

\* the games evaluate_many is asked to play
EvaluationGames == 2

\* a loop test that lets the loop go on whatever the game's result
LoopGoesOn_Always(g) == TRUE

\* while game.game_result().is_none()
LoopGoesOn(g) == g.game_result = NoResult

\* (agent_wins, opponent_wins, draws) with nothing counted
NoTallies == [agent_wins |-> 0, opponent_wins |-> 0, draws |-> 0]

\* lines 283-295: the game is counted by its result and the learner's turn
Tallied(tallies, learner, result) ==
    IF result.tag = "Win"
    THEN IF result.turn = learner
         THEN [tallies EXCEPT !.agent_wins = @ + 1]
         ELSE [tallies EXCEPT !.opponent_wins = @ + 1]
    ELSE [tallies EXCEPT !.draws = @ + 1]

\* *game.board().legal_moves().choose(&mut rng): any legal move
UniformMoves(g) ==
    LET moves == legal_moves(g.board) IN { moves[k] : k \in 1..Len(moves) }

\* no place_stone call was made by the loop yet
NotPlaced == [kind |-> "None"]

\* the move of one pass of the while loop of evaluate, lines 311-315: the
\* player that moved and the action, or the panic of an unwrap
EvaluateActions(g, learner) ==
    IF g.turn = learner
    THEN { LET moved == next_move(g, output)
           IN IF moved.kind = "Ok"
              THEN [kind |-> "Move", by |-> "agent", action |-> moved.action]
              ELSE [kind |-> "Panic", by |-> "agent"] :
           output \in ScoreVectors(g.board_size) }
    ELSE IF UniformMoves(g) = {}
    THEN { [kind |-> "Panic", by |-> "random"] }
    ELSE { [kind |-> "Move", by |-> "random", action |-> action] :
           action \in UniformMoves(g) }

\* evaluate returns (agent_turn, game, game_result) to its caller: a game of
\* evaluate_many is counted and the for loop goes on, the game of line 147
\* is printed
EvaluateReturns(e, g, result, placed) ==
    IF e.counted
    THEN [e EXCEPT !.game = g, !.placed = placed, !.at = "for",
                   !.played = @ + 1,
                   !.tallies = Tallied(@, e.agent_turn, result)]
    ELSE [e EXCEPT !.game = g, !.placed = placed, !.at = "printed"]

\* train, line 140: evaluate_many(agent, 10) is entered
EvaluateMany ==
    /\ phase = "epoch_end"
    /\ evaluation = NoCall
    /\ evaluation' = [kind |-> "Evaluate", n |-> EvaluationGames,
                      counted |-> TRUE, played |-> 0, tallies |-> NoTallies,
                      at |-> "for", agent_turn |-> "Black",
                      game |-> NewGame(board_size, max_consecutive_stones),
                      placed |-> NotPlaced]
    /\ UNCHANGED <<options, epoch, iteration, generated, epsilon, replay_buffer,
                   appended, phase, batch, training_step, copied, var_store,
                   optimizer>>
    /\ UNCHANGED <<game_vars, probe_vars, text_vars, replay_vars, estimator_vars>>

\* evaluate, lines 301-308, entered from the for loop of evaluate_many or,
\* when epoch % 10 == 0, from line 147 of train
Evaluate ==
    /\ phase = "epoch_end"
    /\ evaluation # NoCall
    /\ evaluation.at = "for"
    /\ evaluation.played < evaluation.n \/ (evaluation.counted /\ epoch % 10 = 0)
    /\ \E new_agent_turn \in Turns :
          evaluation' =
              [evaluation EXCEPT
                  !.counted = evaluation.played < evaluation.n,
                  !.at = "while",
                  !.agent_turn = new_agent_turn,
                  !.game = NewGame(board_size, max_consecutive_stones),
                  !.placed = NotPlaced]
    /\ UNCHANGED <<options, epoch, iteration, generated, epsilon, replay_buffer,
                   appended, phase, batch, training_step, copied, var_store,
                   optimizer>>
    /\ UNCHANGED <<game_vars, probe_vars, text_vars, replay_vars, estimator_vars>>

\* one pass of the while loop of evaluate, lines 310-324
EvaluateMove ==
    /\ phase = "epoch_end"
    /\ evaluation # NoCall
    /\ evaluation.at = "while"
    /\ IF ~LoopGoesOn(evaluation.game)
       THEN /\ evaluation' = EvaluateReturns(evaluation, evaluation.game, Draw,
                                             evaluation.placed)
            /\ UNCHANGED phase
       ELSE \E chosen \in EvaluateActions(evaluation.game, evaluation.agent_turn) :
               IF chosen.kind = "Panic"
               THEN /\ evaluation' = [evaluation EXCEPT !.at = "panicked",
                                                        !.placed = chosen]
                    /\ phase' = "panicked"
               ELSE LET on == evaluation.game
                        result == PlaceStoneOn(on, chosen.action)
                        placed == [kind |-> "Placed", by |-> chosen.by,
                                   on |-> on, ret |-> result.ret]
                    IN IF result.ret.kind # "Ok"
                       THEN /\ evaluation' = [evaluation EXCEPT
                                                 !.at = "panicked",
                                                 !.placed = placed]
                            /\ phase' = "panicked"
                       ELSE IF is_some(result.ret.game_result)
                       THEN /\ evaluation' =
                                   EvaluateReturns(evaluation, result.game,
                                                   result.ret.game_result,
                                                   placed)
                            /\ UNCHANGED phase
                       ELSE /\ evaluation' = [evaluation EXCEPT
                                                 !.game = result.game,
                                                 !.placed = placed]
                            /\ UNCHANGED phase
    /\ UNCHANGED <<options, epoch, iteration, generated, epsilon, replay_buffer,
                   appended, batch, training_step, copied, var_store,
                   optimizer>>
    /\ UNCHANGED <<game_vars, probe_vars, text_vars, replay_vars, estimator_vars>>

\* lines 141-154 once the games are played: the tallies are printed, and the
\* next epoch starts or train returns
EvaluationEnds ==
    /\ phase = "epoch_end"
    /\ evaluation # NoCall
    /\ \/ evaluation.at = "printed"
       \/ /\ evaluation.at = "for" /\ evaluation.played = evaluation.n
          /\ ~(evaluation.counted /\ epoch % 10 = 0)
    /\ evaluation' = NoCall
    /\ epoch' = epoch + 1
    /\ iteration' = 0
    /\ generated' = 0
    /\ training_step' = 0
    /\ phase' = IF epoch + 1 < options.epoches
                THEN (IF 0 < options.iterations THEN "environment"
                      ELSE AfterEnvironment(options))
                ELSE "returned"
    /\ UNCHANGED <<options, epsilon, replay_buffer, appended, batch, copied,
                   var_store, optimizer>>
    /\ UNCHANGED <<game_vars, probe_vars, text_vars, replay_vars, estimator_vars>>

EvaluateOptionSets ==
    [epoches : {2},
     replay_buffer_size : {1},
     batch_size : {1},
     iterations : {1},
     training_steps : {1},
     epsilon : {Scale \div 2},
     epsilon_decay : {Scale \div 2},
     epsilon_min : {1},
     gamma : {Scale - 1},
     tau : {Scale \div 2}]

\* train as it starts, on games that can be won and games that are drawn
InitEvaluate ==
    /\ \E w \in {2, 3} : GameNew(2, w)
    /\ ret = NoCall
    /\ probe_board = BoardNew(0)
    /\ probe = NoCall
    /\ TextIdle
    /\ agent_turn \in Turns
    /\ step = NoCall
    /\ call = NoCall
    /\ frames = NoCall
    /\ EstimatorIdle
    /\ options \in EvaluateOptionSets
    /\ epoch = 0
    /\ iteration = 0
    /\ generated = 0
    /\ epsilon = options.epsilon
    /\ replay_buffer = <<>>
    /\ appended = <<>>
    /\ phase = "environment"
    /\ batch = <<>>
    /\ training_step = 0
    /\ copied = NoCall
    /\ evaluation = NoCall
    /\ var_store = StoreAtStart
    /\ optimizer = build(StoreAtStart)

\* train with the evaluation of lines 140-153 step by step
NextEvaluate ==
    \/ EnvironmentIteration
    \/ DrawBatch
    \/ OptimizerStep
    \/ SoftUpdate
    \/ EvaluateMany
    \/ Evaluate
    \/ EvaluateMove
    \/ EvaluationEnds

SpecEvaluate == InitEvaluate /\ [][NextEvaluate]_vars

---------------------------------------------------------------------------
(* gomoku-cli-pvp: main, read_position and place_stone (main.rs), and the  *)
(* loops that call Game::place_stone taken together                        *)

\* the lines typed at the prompt, as read_line hands them over: the cells of
\* a board of size 2, a cell outside it, an empty line and a word
PvPTexts ==
    { << "a", "1", "\n" >>, << "a", "2", "\n" >>, << "B", "1", "\n" >>,
      << "2", "b", "\n" >>, << "c", "1", "\n" >>, << "\n" >>,
      << "g", "o", "\n" >> }

\* main is in its loop, with no line read yet
PvPStarts == [kind |-> "PvP", at |-> "main"]

\* main, lines 7-21: the test of the while loop; the loop's body calls
\* place_stone, and past the loop the result is printed
PvPMain ==
    /\ pvp # NoCall
    /\ pvp.at = "main"
    /\ pvp' = [pvp EXCEPT !.at = IF LoopGoesOn(TheGame) THEN "read"
                                 ELSE "ended"]
    /\ UNCHANGED <<overflow_checks, text_size, text_index, text, parsed>>
    /\ UNCHANGED <<game_vars, probe_vars, replay_vars, estimator_vars, train_vars>>

\* one pass of the loop of read_position, lines 24-47
PvPReadPosition ==
    /\ pvp # NoCall
    /\ pvp.at = "read"
    /\ \E input \in PvPTexts :
          LET index == parse_index(text_size, input, overflow_checks)
          IN /\ text' = SomeText(input)
             /\ parsed' = [index |-> parse(text_size, input, overflow_checks),
                           ret |-> index]
             /\ pvp' = [pvp EXCEPT !.at = IF index.kind = "Some" THEN "place"
                                          ELSE IF index.kind = "None" THEN "read"
                                          ELSE "panicked"]
    /\ UNCHANGED <<overflow_checks, text_size, text_index>>
    /\ UNCHANGED <<game_vars, probe_vars, replay_vars, estimator_vars, train_vars>>

\* place_stone of main.rs, lines 52-77: game.place_stone(index); the loop
\* goes back to read_position on an error
PvPPlaceStone ==
    /\ pvp # NoCall
    /\ pvp.at = "place"
    /\ place_stone(parsed.ret.index)
    /\ pvp' = [pvp EXCEPT !.at = IF ret'.kind = "Ok" THEN "main" ELSE "read"]
    /\ UNCHANGED <<overflow_checks, text_size, text_index, text, parsed>>
    /\ UNCHANGED <<probe_vars, replay_vars, estimator_vars, train_vars>>

\* main as it starts: let mut game = Game::new(15, 5)
InitPvP ==
    /\ \E w \in {2, 3} : GameNew(2, w)
    /\ ret = NoCall
    /\ probe_board = BoardNew(0)
    /\ probe = NoCall
    /\ overflow_checks \in BOOLEAN
    /\ text_size = board_size
    /\ text_index = 0
    /\ text = NotFormatted
    /\ parsed = NoCall
    /\ pvp = PvPStarts
    /\ ReplayIdle
    /\ EstimatorIdle
    /\ TrainIdle

\* the trainer or the player-versus-player program is started
InitCallers == InitEvaluate \/ InitPvP

NextCallers ==
    \/ NextEvaluate
    \/ PvPMain
    \/ PvPReadPosition
    \/ PvPPlaceStone

SpecCallers == InitCallers /\ [][NextCallers]_vars

---------------------------------------------------------------------------
(* Reference notions the claims are stated with                            *)

\* The four axes: horizontal, vertical and the two diagonals.
Axes == { <<1, 0>>, <<0, 1>>, <<1, -1>>, <<1, 1>> }

OnBoard(n, x, y) == x >= 0 /\ x < n /\ y >= 0 /\ y < n

Between(k) == IF k >= 0 THEN 0..k ELSE k..0

\* Length of the maximal contiguous segment of colour `cell` through (x, y)
\* along axis a, bounded by the board edge.
SegmentLength(b, x, y, cell, a) ==
    LET n == b.board_size
    IN Cardinality({ k \in (1 - n)..(n - 1) :
           \A j \in Between(k) :
               /\ OnBoard(n, x + j * a[1], y + j * a[2])
               /\ b.cells[(y + j * a[2]) * n + (x + j * a[1])] = cell })

SetMax(S) == CHOOSE v \in S : \A u \in S : u <= v

\* Largest same-colour run through cell `index` over the four axes.
LargestRun(b, index, cell) ==
    SetMax({ SegmentLength(b, index % b.board_size, index \div b.board_size,
                           cell, a) : a \in Axes })

NonEmptyCells(b) == { i \in DOMAIN b.cells : b.cells[i] # "Empty" }

SeqToSet(s) == { s[k] : k \in 1..Len(s) }

StrictlyAscending(s) == \A k \in 1..(Len(s) - 1) : s[k] < s[k + 1]

Descending(s) == \A k \in 1..(Len(s) - 1) : s[k] >= s[k + 1]

\* The game fields a place_stone call may touch.
GameState == <<board_size, max_consecutive_stones, turn, turn_count, history,
               game_result, board>>

---------------------------------------------------------------------------
(* Claims about Game::place_stone (Spec)                                   *)
(*                                                                         *)
(* Every step of Spec is a place_stone(index) call, and what it returns    *)
(* carries the index it was called with, so a step is place_stone(index)   *)
(* for index = ret'.index or for no index at all.                          *)

\* C1 (as stated): a successful place_stone(index) by mover m on an
\* in-progress game makes the result Win(m) if and only if the largest
\* same-colour run through the placed stone is exactly the win threshold.
C1_WinIffLargestRunIsThreshold ==
    [][LET index == ret'.index IN
          (place_stone(index) /\ ret'.kind = "Ok" /\ ~is_some(game_result))
          => ((game_result' = Win(turn))
              <=> (LargestRun(board', index, TurnToCell(turn))
                     = max_consecutive_stones))]_vars

\* C1 (amended): a successful place_stone(index) by mover m on an in-progress
\* game makes the result Win(m) if and only if the largest same-colour run
\* through the placed stone is exactly the win threshold and at least 2 (a
\* lone stone is not a run, so a threshold of 1 is never met); on a win the
\* first entry of consecutive_stones is the threshold.
C1_WinIffExactRunOfTwoOrMore ==
    [][LET index == ret'.index IN
          (place_stone(index) /\ ret'.kind = "Ok" /\ ~is_some(game_result))
          => LET run == LargestRun(board', index, TurnToCell(turn))
             IN /\ (game_result' = Win(turn))
                   <=> (run = max_consecutive_stones /\ run >= 2)
                /\ (game_result' = Win(turn))
                   => /\ ret'.consecutive_stones # <<>>
                      /\ ret'.consecutive_stones[1] = max_consecutive_stones
                      /\ ret'.game_result = Win(turn)]_vars

\* C1 witness: Black has just completed the top row 0,1,2 of a size-3 board
\* with threshold 3 (White moved elsewhere in between) and has won.
C1_Witness ==
    /\ board_size = 3 /\ max_consecutive_stones = 3 /\ turn_count = 5
    /\ ret.kind = "Ok" /\ ret.turn_was = "Black"
    /\ \A i \in {0, 1, 2} : board.cells[i] = "Black"
    /\ game_result = Win("Black")
    /\ ret.consecutive_stones[1] = 3

\* C2: a successful place_stone sets the result to Draw exactly when the move
\* is not a winning move and the move count after it equals size*size; while
\* no win was declared and fewer than size*size moves were played the result
\* stays None.
C2_DrawIffFullAndNoWin ==
    [][LET index == ret'.index IN
          (place_stone(index) /\ ret'.kind = "Ok")
          => LET run == LargestRun(board', index, TurnToCell(turn))
                 winning == run = max_consecutive_stones /\ run >= 2
                 full == turn_count' = board_size * board_size
             IN /\ (game_result' = Draw) <=> (~winning /\ full)
                /\ (~is_some(game_result) /\ ~winning /\ ~full)
                   => ~is_some(game_result')]_vars

\* C2 witness: the last cell of a board was filled by a move that completes no
\* run of the threshold length, and the game is drawn.
C2_Witness ==
    /\ ret.kind = "Ok" /\ ret.game_result = Draw /\ game_result = Draw
    /\ turn_count = board_size * board_size
    /\ NonEmptyCells(board) = DOMAIN board.cells

\* C3: place_stone(index) returns InvalidIndex{index, size*size} when
\* index >= size*size, otherwise StoneAlreadyPlaced{index, occupying colour}
\* when the cell is occupied; in both cases the game is left unchanged.
C3_ErrorsLeaveGameUnchanged ==
    [][LET index == ret'.index IN
          place_stone(index)
          => /\ index >= board_size * board_size
                => /\ ret' = [kind |-> "InvalidIndex", index |-> index,
                              max_allowed_index |-> board_size * board_size]
                   /\ UNCHANGED GameState
             /\ (index < board_size * board_size /\ board.cells[index] # "Empty")
                => /\ ret' = [kind |-> "StoneAlreadyPlaced", index |-> index,
                              stone |-> board.cells[index]]
                   /\ UNCHANGED GameState
             /\ (index < board_size * board_size /\ board.cells[index] = "Empty")
                => ret'.kind = "Ok"]_vars

\* C3 witness: an occupied cell was played again; the call reported the
\* occupying colour.
C3_Witness ==
    /\ ret.kind = "StoneAlreadyPlaced" /\ ret.stone = "White"
    /\ board.cells[ret.index] = "White" /\ turn_count = 2

\* C4: the number of non-empty cells equals turn_count in every reachable
\* state, and a successful place_stone changes exactly the cell at index, from
\* Empty to the mover's colour.
C4_StonesEqualTurnCount ==
    /\ [](Cardinality(NonEmptyCells(board)) = turn_count)
    /\ [][LET index == ret'.index IN
             (place_stone(index) /\ ret'.kind = "Ok")
             => /\ board.cells[index] = "Empty"
                /\ board'.cells[index] = TurnToCell(turn)
                /\ \A j \in DOMAIN board.cells :
                       j # index => board'.cells[j] = board.cells[j]
                /\ DOMAIN board'.cells = DOMAIN board.cells
                /\ board'.board_size = board.board_size]_vars

\* C4 witness: three stones on the board after three moves, the last call
\* having failed in between.
C4_Witness ==
    /\ turn_count = 3 /\ Cardinality(NonEmptyCells(board)) = 3
    /\ ret.kind = "InvalidIndex"

\* C5: the side to move is Black iff turn_count is even; a successful
\* place_stone colours the cell with the colour of the side that was to move
\* and flips the side to move; a failed one does not flip it.
C5_TurnsAlternate ==
    /\ []((turn = "Black") <=> (turn_count % 2 = 0))
    /\ [][LET index == ret'.index IN
             place_stone(index)
             => IF ret'.kind = "Ok"
                THEN /\ board'.cells[index] = turn
                     /\ turn' # turn /\ turn' \in Turns
                ELSE turn' = turn]_vars

\* C5 witness: after Black's and White's first stones it is Black's move again.
C5_Witness ==
    /\ turn_count = 2 /\ turn = "Black" /\ ret.kind = "Ok"
    /\ ret.turn_was = "White"
    /\ Cardinality({ i \in DOMAIN board.cells : board.cells[i] = "White" }) = 1

\* C6: once game_result is Some(r), no later place_stone call changes it.
C6_FinishedIsTerminal ==
    [][is_some(game_result) => game_result' = game_result]_vars

\* C7: the PlaceStoneResult of a successful place_stone(index) describes the
\* move: index is the argument, turn_was the side that was to move, stone the
\* colour now on board[index], board_was the board before the call and
\* game_result the game's result after the call.
C7_ResultDescribesMove ==
    [][\A index \in CallIndices :
          (place_stone(index) /\ ret'.kind = "Ok")
          => /\ ret'.index = index
             /\ ret'.turn_was = turn
             /\ ret'.stone = board'.cells[index]
             /\ ret'.stone = TurnToCell(ret'.turn_was)
             /\ ret'.board_was = board
             /\ ret'.board_was.cells[index] = "Empty"
             /\ ret'.game_result = game_result']_vars

\* C10: legal_moves() and illegal_moves() are strictly ascending, disjoint and
\* together cover [0, size*size) (the empty and the occupied cells); a
\* successful placement removes exactly the placed index from legal_moves()
\* and adds exactly it to illegal_moves(), so after k placements they have
\* size*size - k and k elements.
C10_LegalIllegalPartition ==
    /\ [](LET legal == legal_moves(board)
              illegal == illegal_moves(board)
          IN /\ StrictlyAscending(legal) /\ StrictlyAscending(illegal)
             /\ SeqToSet(legal) \cap SeqToSet(illegal) = {}
             /\ SeqToSet(legal) \cup SeqToSet(illegal)
                  = 0..(board_size * board_size - 1)
             /\ SeqToSet(legal) = (DOMAIN board.cells) \ NonEmptyCells(board)
             /\ SeqToSet(illegal) = NonEmptyCells(board)
             /\ Len(legal) = board_size * board_size - turn_count
             /\ Len(illegal) = turn_count)
    /\ [][LET index == ret'.index IN
             (place_stone(index) /\ ret'.kind = "Ok")
             => /\ SeqToSet(legal_moves(board'))
                     = SeqToSet(legal_moves(board)) \ {index}
                /\ index \in SeqToSet(legal_moves(board))
                /\ SeqToSet(illegal_moves(board'))
                     = SeqToSet(illegal_moves(board)) \cup {index}
                /\ index \notin SeqToSet(illegal_moves(board))]_vars

\* C10 witness: two placements made on a size-3 board: 7 legal and 2 illegal
\* moves remain.
C10_Witness ==
    /\ board_size = 3 /\ turn_count = 2 /\ ret.kind = "Ok"
    /\ Len(legal_moves(board)) = 7
    /\ illegal_moves(board) = <<2, 5>>

---------------------------------------------------------------------------
(* Claims about the coordinate text (SpecRoundTrip, SpecParse)             *)

AllOf(t, Class(_)) == \A k \in 1..Len(t) : Class(t[k])

\* The text without its leading and trailing whitespace.
Trimmed(t) ==
    LET solid == { k \in 1..Len(t) : ~is_whitespace(t[k]) }
    IN IF solid = {} THEN <<>>
       ELSE SubSeq(t, CHOOSE k \in solid : \A j \in solid : k <= j,
                      CHOOSE k \in solid : \A j \in solid : k >= j)

\* The ways to read a text as one of the four accepted forms: letters then
\* number (1), number then letters (2), number whitespace number (3), a
\* single number (4), with optional whitespace around and between the tokens.
Readings(t) ==
    LET core == Trimmed(t)
        n == Len(core)
    IN { [form |-> 4, first |-> core, second |-> <<>>] :
            x \in { y \in {1} : n > 0 /\ AllOf(core, is_ascii_digit) } }
       \cup
       { [form |-> IF AllOf(SubSeq(core, 1, jk[1]), is_ascii_alphabetic) THEN 1
                   ELSE IF AllOf(SubSeq(core, jk[2] + 1, n), is_ascii_alphabetic)
                        THEN 2 ELSE 3,
          first |-> SubSeq(core, 1, jk[1]),
          second |-> SubSeq(core, jk[2] + 1, n)] :
            jk \in { p \in (1..n) \X (1..n) :
                      /\ p[1] <= p[2] /\ p[2] < n
                      /\ AllOf(SubSeq(core, p[1] + 1, p[2]), is_whitespace)
                      /\ LET a == SubSeq(core, 1, p[1])
                             b == SubSeq(core, p[2] + 1, n)
                         IN \/ AllOf(a, is_ascii_alphabetic) /\ AllOf(b, is_ascii_digit)
                            \/ AllOf(a, is_ascii_digit) /\ AllOf(b, is_ascii_alphabetic)
                            \/ /\ AllOf(a, is_ascii_digit) /\ AllOf(b, is_ascii_digit)
                               /\ p[1] < p[2] } }

AcceptedForm(t) == Readings(t) # {}

\* A token without its leading zero digits ("0", or "a"/"A" for letters).
RECURSIVE Significant(_, _)
Significant(token, zeros) ==
    IF token # <<>> /\ Head(token) \in zeros
    THEN Significant(Tail(token), zeros)
    ELSE token

\* The number a digit run denotes, and the positional base-26 value (a = 0,
\* either case) of a letter run; Beyond stands for every value too large to
\* name a row or column of any board of the model.
Beyond == UsizeMax

CharValue(c) ==
    IF IsIn(c, DigitChars) THEN PosIn(c, DigitChars) - 1
    ELSE IF IsIn(c, LowerLetters) THEN PosIn(c, LowerLetters) - 1
    ELSE PosIn(c, UpperLetters) - 1

RECURSIVE Positional(_, _)
Positional(token, base) ==
    IF token = <<>> THEN 0
    ELSE Positional(SubSeq(token, 1, Len(token) - 1), base) * base
         + CharValue(token[Len(token)])

NumberOf(digits) ==
    IF Len(Significant(digits, {"0"})) > 9 THEN Beyond
    ELSE Positional(Significant(digits, {"0"}), 10)

ColumnOf(letters) ==
    IF Len(Significant(letters, {"a", "A"})) > 6 THEN Beyond
    ELSE Positional(Significant(letters, {"a", "A"}), 26)

\* The (row, column) the grammar gives a reading on a board of `size`.
GrammarIndex(r, size) ==
    LET row == CASE r.form = 1 -> NumberOf(r.second) - 1
                 [] r.form = 2 -> NumberOf(r.first) - 1
                 [] r.form = 3 -> NumberOf(r.second) - 1
                 [] r.form = 4 -> (NumberOf(r.first) - 1) \div size
        column == CASE r.form = 1 -> ColumnOf(r.first)
                    [] r.form = 2 -> ColumnOf(r.second)
                    [] r.form = 3 -> NumberOf(r.first) - 1
                    [] r.form = 4 -> (NumberOf(r.first) - 1) % size
    IN IF row >= 0 /\ row < size /\ column >= 0 /\ column < size
       THEN SomeIndex(row, column)
       ELSE NoIndex

\* C11: for every board size and every index i in [0, size*size),
\* parse_index(index_to_position(i)) = Some(i), also for columns that need
\* more than one letter; index_to_position returns None exactly for
\* i >= size*size.
C11_RoundTrip ==
    /\ text # NotFormatted
       => ((text = NoText) <=> (text_index >= text_size * text_size))
    /\ (text.kind = "Some" /\ parsed # NoCall)
       => parsed.ret = [kind |-> "Some", index |-> text_index]

\* C12: for every input text and every board size IndexParser::parse returns
\* Some(index) or None; it never panics.
C12_ParseNeverPanics ==
    parsed # NoCall
    => /\ parsed.index.kind \in {"Some", "None"}
       /\ parsed.ret.kind \in {"Some", "None"}

\* C13: for every input of one of the four accepted forms the parser returns
\* the (row, column) of the grammar when row < size and column < size, and
\* None otherwise.
C13_ParseFollowsGrammar ==
    (parsed # NoCall /\ text.kind = "Some")
    => \A r \in Readings(text.text) :
           parsed.index = GrammarIndex(r, text_size)

\* C14: the parser returns Some only if the whole input is one complete
\* pattern; it returns None for the empty text, whitespace only, a lone letter
\* run, a text starting with a character that is neither letter, digit nor
\* whitespace, and any text with characters left over after a pattern.
C14_SomeOnlyForWholePattern ==
    (parsed # NoCall /\ text.kind = "Some")
    => /\ parsed.index.kind = "Some" => AcceptedForm(text.text)
       /\ ~AcceptedForm(text.text)
          => (parsed.index = NoIndex /\ parsed.ret = NoIndex)
       /\ (\/ Trimmed(text.text) = <<>>
           \/ AllOf(Trimmed(text.text), is_ascii_alphabetic)
           \/ LET c == Head(Trimmed(text.text))
              IN ~is_ascii_alphabetic(c) /\ ~is_ascii_digit(c))
          => parsed.index = NoIndex

\* C14 witness: "15 1 15" was parsed on a size-15 board and rejected.
C14_Witness ==
    /\ text = SomeText(<< "1", "5", " ", "1", " ", "1", "5" >>)
    /\ text_size = 15
    /\ parsed # NoCall /\ parsed.index = NoIndex

---------------------------------------------------------------------------
(* Claims about generate_history_boards (SpecHistory)                      *)

\* The boards of the history recorded with turn `player`, oldest first.
RecordedFor(player) == SelectSeq(history, LAMBDA e : e[1] = player)

\* The frames in chronological order: the most recent board recorded for the
\* player in the last position, older ones before it, empty boards in front.
ChronologicalFrames(player) ==
    LET recorded == RecordedFor(player)
        kept == IF Len(recorded) < HistoryFrames THEN Len(recorded)
                ELSE HistoryFrames
    IN [j \in 1..HistoryFrames |->
           IF j > HistoryFrames - kept
           THEN <<player, recorded[Len(recorded) - HistoryFrames + j][2]>>
           ELSE <<player, BoardNew(board_size)>>]

\* C15: generate_history_boards(p, game) returns the up-to-4 most recent
\* history boards recorded with turn p in chronological order, the most recent
\* one in the last position, preceded by empty-board padding; every frame is
\* tagged with p.
C15_FramesChronological ==
    frames # NoCall
    => /\ frames.boards = ChronologicalFrames(frames.player)
       /\ \A j \in 1..Len(frames.boards) : frames.boards[j][1] = frames.player

\* C16: generate_history_boards returns exactly 4 frames for either
\* perspective and any reachable game, from no move to a full board; for a
\* game with no move played all 4 frames are the empty board.
C16_AlwaysFourFrames ==
    frames # NoCall
    => /\ Len(frames.boards) = 4
       /\ turn_count = 0
          => \A j \in 1..4 :
                 frames.boards[j] = <<frames.player, BoardNew(board_size)>>

\* C16 witness: the frames of a full size-3 board, taken for White.
C16_Witness ==
    /\ frames # NoCall /\ frames.player = "White"
    /\ board_size = 3 /\ turn_count = 9
    /\ Len(frames.boards) = 4

---------------------------------------------------------------------------
(* Claims about sample_replay and the TD target (SpecReplay)               *)

\* The last call returned a step.
StepReturned == step # NoCall /\ step # ReplayPanic

\* The learner's move of the last call, replayed on the game it was made on.
LearnerMove == PlaceStoneOn(call.moved_on, call.agent_action)

\* The last call returned a step and the learner's move ended the game.
LearnerEnded == StepReturned /\ is_some(LearnerMove.ret.game_result)

\* The last call returned a step, the learner's move did not end the game and
\* the opponent's reply did.
OpponentEnded ==
    /\ StepReturned
    /\ ~is_some(LearnerMove.ret.game_result)
    /\ is_some(game_result)

\* Values of gamma and of the target network's Q value the TD target is
\* checked with.
Gammas == {0, 1}

TargetQs == {-7, 0, 7}

\* C17: when the opponent's reply ends the game, the step has action equal to
\* the learner's move made earlier in the call, reward -100, next_boards
\* absent and game_result set to the final result.
C17_OpponentEndsStep ==
    OpponentEnded
    => /\ step.action = call.agent_action
       /\ step.reward = -100
       /\ step.next_boards = NoBoards
       /\ step.game_result = game_result

\* C18: every step returned by sample_replay has turn equal to the learner's
\* turn returned alongside it, in all three outcomes.
C18_StepTurnIsLearner ==
    StepReturned => step.turn = agent_turn

\* C19: if the learner's move ends the game, sample_replay returns without an
\* opponent reply; the step has reward +100, next_boards absent, game_result
\* equal to that result and action equal to the learner's move, and its
\* 'before' frames are the learner's history taken before that move.
C19_LearnerEndsStep ==
    LearnerEnded
    => /\ call.opponent_action = NoMove
       /\ TheGame = LearnerMove.game
       /\ step.reward = 100
       /\ step.next_boards = NoBoards
       /\ step.game_result = LearnerMove.ret.game_result
       /\ step.game_result = game_result
       /\ step.action = call.agent_action
       /\ step.boards =
            generate_history_boards(agent_turn,
                [TheGame EXCEPT !.history = SubSeq(@, 1, Len(@) - 1)])

\* C19 witness: the learner's move filled the board without a win, and the
\* step of this draw has reward +100.
C19_Witness ==
    /\ LearnerEnded
    /\ step.game_result = Draw
    /\ step.reward = 100
    /\ call.opponent_action = NoMove

\* C20: every step of sample_replay has next_boards absent if and only if
\* game_result is present; so the TD target falls back to the 'before' frames
\* only for steps whose done flag is 1, and for those the target is the reward
\* alone.
C20_NextAbsentIffDone ==
    StepReturned
    => /\ (step.next_boards = NoBoards) <=> is_some(step.game_result)
       /\ step.next_boards = NoBoards
          => /\ NextFrames(step) = step.boards
             /\ IsDone(step) = 1
             /\ \A gamma \in Gammas : \A target_q \in TargetQs :
                    compute_td_target(step, gamma, target_q) = step.reward
       /\ step.next_boards # NoBoards
          => /\ NextFrames(step) = step.next_boards.boards
             /\ IsDone(step) = 0

\* The games the learner can be moving on when play starts from game g: g
\* itself when it is the learner's turn, g after one opponent move otherwise.
LearnerMovesOn(g, learner) ==
    IF g.turn = learner THEN { g }
    ELSE { PlaceStoneOn(g, action).game : action \in SeqToSet(legal_moves(g.board)) }

\* C22: sample_replay replaces the game if and only if the supplied game has
\* a result: then play starts from a fresh game (empty board, Black to move,
\* no move, one history entry) of the same board size and win length, with a
\* re-drawn learner colour; otherwise the supplied game and learner colour are
\* continued. The returned game has the supplied board size and win length.
C22_ResetIffFinished ==
    [][ (step' # ReplayPanic /\ call' # NoCall)
        => /\ board_size' = board_size
           /\ max_consecutive_stones' = max_consecutive_stones
           /\ IF is_some(game_result)
              THEN /\ call'.moved_on \in
                        LearnerMovesOn(NewGame(board_size, max_consecutive_stones),
                                       agent_turn')
                   /\ history'[1] = <<"Black", BoardNew(board_size)>>
                   /\ turn_count' <= 3
              ELSE /\ agent_turn' = agent_turn
                   /\ call'.moved_on \in LearnerMovesOn(TheGame, agent_turn)
                   /\ SubSeq(history', 1, Len(history)) = history ]_vars

\* C22 witness: a finished game was supplied with the learner playing Black,
\* and the call returned a step of a fresh game with the learner playing
\* White.
C22_Witness ==
    /\ StepReturned
    /\ supplied # NoCall /\ supplied.finished
    /\ supplied.agent_turn = "Black" /\ agent_turn = "White"
    /\ turn_count <= 3

\* C20 witness: a terminal step, whose TD target used the 'before' frames.
C20_Witness ==
    /\ StepReturned
    /\ step.next_boards = NoBoards
    /\ is_some(step.game_result)
    /\ NextFrames(step) = step.boards

---------------------------------------------------------------------------
(* Claims about compute_nonterminal_reward (SpecReward)                    *)

\* The largest run through the learner's stone of the last reward call.
OwnRun ==
    LargestRun(board, reward.result.index, TurnToCell(reward.result.turn_was))

\* The largest run the opponent would have had through the same cell, had the
\* opponent placed there on the board before the move.
BlockedRun ==
    LET opponent == TurnToCell(TurnNext(reward.result.turn_was))
    IN LargestRun(set_cell(reward.result.board_was, reward.result.index, opponent),
                  reward.result.index, opponent)

\* C21: for a non-terminal transition the reward is +1 if the largest run
\* through the learner's stone is 3, 4 or 5; otherwise +1 if the opponent's
\* colour at the same index on the pre-move board gives the opponent a largest
\* run of 4 or 5; otherwise 0. The reward is never 2, and the probe leaves the
\* game's board and history as the move made them.
C21_RewardRule ==
    (reward # NoCall /\ reward.result.game_result = NoResult)
    => /\ reward.value = IF OwnRun \in {3, 4, 5} THEN 1
                         ELSE IF BlockedRun \in {4, 5} THEN 1
                         ELSE 0
       /\ reward.value \in {0, 1}
       /\ board = set_cell(reward.result.board_was, reward.result.index,
                           TurnToCell(reward.result.turn_was))
       /\ history[Len(history)] = <<turn, board>>
       /\ Len(history) = turn_count + 1

\* C21 witness: a non-terminal move that makes no run of 3 to 5 of its own
\* and takes the cell that would have given the opponent a run of 4 or 5.
C21_Witness ==
    /\ reward # NoCall /\ reward.result.game_result = NoResult
    /\ OwnRun \notin {3, 4, 5}
    /\ BlockedRun \in {4, 5}
    /\ reward.value = 1

---------------------------------------------------------------------------
(* Claims about Board::count_consecutive_cells (SpecCount)                 *)

\* rot180(b)[j] = b[N*N - 1 - j]
rot180(b) ==
    [b EXCEPT !.cells = [j \in DOMAIN b.cells |-> b.cells[NumCells(b) - 1 - j]]]

\* C8: count_consecutive_cells(index, turn) is the empty list when index is
\* out of range or the cell is empty or of the other colour; otherwise it
\* holds, in descending order, the lengths >= 2 of the maximal contiguous
\* same-colour segments through index on the 4 axes (bounded by the board
\* edge); it has at most 4 entries, each at most size.
C8_CountMatchesReference ==
    probe.kind = "Count"
    => LET b == probe_board
           n == b.board_size
           i == probe.index
           r == probe.result
           mine == IF probe.turn = "Black" THEN "Black" ELSE "White"
           seg(a) == SegmentLength(b, i % n, i \div n, mine, a)
       IN IF i >= n * n \/ b.cells[i] = "Empty" \/ b.cells[i] # mine
          THEN r = <<>>
          ELSE /\ Descending(r)
               /\ Len(r) <= 4
               /\ \A k \in 1..Len(r) : r[k] >= 2 /\ r[k] <= n
               /\ \A v \in 2..n :
                      Cardinality({ k \in 1..Len(r) : r[k] = v })
                        = Cardinality({ a \in Axes : seg(a) = v })

\* C8 witness: Black holds cells 2, 3 and 5 of a size-3 board (2 and 3 are
\* neighbours in the cell vector but not on the board); counting at 2 finds
\* only the vertical pair.
C8_Witness ==
    /\ probe.kind = "Count" /\ probe.index = 2 /\ probe.turn = "Black"
    /\ probe_board.board_size = 3
    /\ \A i \in {2, 3, 5} : probe_board.cells[i] = "Black"
    /\ probe.result = <<2>>

\* C9: count_consecutive_cells(b, i, t) equals
\* count_consecutive_cells(rot180(b), N*N-1-i, t) for every board b, cell
\* index i and turn t.
C9_RotationInvariant ==
    (probe.kind = "Count" /\ probe.index < NumCells(probe_board))
    => probe.result
         = count_consecutive_cells(rot180(probe_board),
                                   NumCells(probe_board) - 1 - probe.index,
                                   probe.turn)

\* C9 witness: a count of <<3, 2>> on a board that its rotation changes.
C9_Witness ==
    /\ probe.kind = "Count" /\ probe.result = <<3, 2>>
    /\ probe_board.board_size = 3
    /\ rot180(probe_board) # probe_board
    /\ probe.index = 0

\* The arg-max of the scores over the empty cells of a board.
BestEmptyCells(b, scores) ==
    { c \in SeqToSet(legal_moves(b)) :
        \A d \in SeqToSet(legal_moves(b)) : scores[d] <= scores[c] }

\* C29: for every in-progress game with an empty cell and every score vector,
\* next_move returns the board index of an empty cell, the one with the
\* highest score among the legal moves, so placing a stone there never fails.
C29_NextMoveIsLegalCell ==
    (estimate.kind = "NextMove" /\ Len(legal_moves(board)) > 0)
    => /\ estimate.moved.kind = "Ok"
       /\ estimate.moved.action \in BestEmptyCells(board, estimate.output)
       /\ estimate.placed.kind = "Ok"

\* C30: the action of the TD target of a step with 'next' frames is an empty
\* cell of the next state, the board the game has after the call, and it
\* maximises the online score among exactly those cells.
C30_TargetActionOnNextState ==
    (estimate.kind = "Target" /\ step.next_boards.kind = "Some"
       /\ Len(legal_moves(board)) > 0)
    => /\ estimate.best.kind = "Ok"
       /\ estimate.best.action \in BestEmptyCells(board, estimate.action_values)

\* The last `count` steps of the steps pushed so far.
MostRecent(pushed, count) ==
    SubSeq(pushed, Len(pushed) - count + 1, Len(pushed))

\* The game a call of sample_replay leaves: the learner's move and the
\* opponent's reply, if there was one, made on the game the learner moved on.
PlayedOn(the_call) ==
    LET after_agent == PlaceStoneOn(the_call.moved_on, the_call.agent_action).game
    IN IF the_call.opponent_action = NoMove THEN after_agent
       ELSE PlaceStoneOn(after_agent, the_call.opponent_action.index).game

\* The step pushed by the iteration just made.
Pushed == appended' # appended

\* C23: for every configured capacity C the replay buffer never holds more
\* than C steps; after C + 1 appends it holds exactly C steps, the ones after
\* the first appended.
C23_BufferBounded ==
    options # NoCall
    => /\ Len(replay_buffer) <= options.replay_buffer_size
       /\ Len(appended) = options.replay_buffer_size + 1
          => replay_buffer = MostRecent(appended, options.replay_buffer_size)

\* C24: eviction is first-in-first-out: an append to a buffer at capacity
\* removes exactly the oldest stored step and puts the new one at the back, an
\* append below capacity removes nothing, and the buffer always is the most
\* recently appended steps in insertion order.
C24_FifoEviction ==
    [][Pushed
       => (/\ Len(appended') = Len(appended) + 1
           /\ (Len(replay_buffer) # 0
                 /\ Len(replay_buffer) >= options.replay_buffer_size)
              => replay_buffer'
                   = Append(Tail(replay_buffer), appended'[Len(appended')])
           /\ Len(replay_buffer) < options.replay_buffer_size
              => replay_buffer'
                   = Append(replay_buffer, appended'[Len(appended')])
           /\ replay_buffer' = MostRecent(appended', Len(replay_buffer')))]_vars

\* C24 witness: a buffer of capacity 2 that has evicted its oldest step and
\* holds two different steps.
C24_Witness ==
    /\ options # NoCall /\ options.replay_buffer_size = 2
    /\ Len(appended) = 3 /\ Len(replay_buffer) = 2
    /\ replay_buffer[1] # replay_buffer[2]
    /\ appended[1] # appended[2]

\* C25: a batch is min(k, occupancy) pairwise distinct entries of the buffer,
\* k of them when k <= occupancy and the whole buffer otherwise, and drawing
\* it leaves the buffer as it is.
C25_BatchDistinct ==
    [][(phase = "batch" /\ phase' = "optimize")
       => (/\ Len(batch') = IF options.batch_size <= Len(replay_buffer)
                            THEN options.batch_size ELSE Len(replay_buffer)
           /\ \A k \in 1..Len(batch') : batch'[k] \in 1..Len(replay_buffer)
           /\ \A j, k \in 1..Len(batch') : j # k => batch'[j] # batch'[k]
           /\ replay_buffer' = replay_buffer)]_vars

\* C25 witness: a batch of two drawn from a buffer of two, as the second
\* entry and then the first.
C25_Witness ==
    /\ phase = "optimize" /\ options.batch_size = 2
    /\ Len(replay_buffer) = 2 /\ batch = <<2, 1>>

\* C26: in the environment phase the step a call of the generator returns is
\* appended iff its turn is the learner turn returned by that call, and is
\* discarded otherwise; the game and learner turn the call returned are
\* adopted in both cases.
C26_AppendIffLearnerStep ==
    [][(phase = "environment" /\ generated' = generated + 1
          /\ step' # ReplayPanic)
       => (/\ Pushed <=> step'.turn = agent_turn'
           /\ Pushed => appended' = Append(appended, step')
           /\ ~Pushed => replay_buffer' = replay_buffer
           /\ agent_turn' = call'.moved_on.turn
           /\ TheGame' = PlayedOn(call'))]_vars

\* C26 witness: the first call of an epoch returned a step of the opponent's
\* turn and nothing was appended.
C26_Witness ==
    /\ phase = "environment" /\ generated = 1 /\ appended = <<>>
    /\ StepReturned /\ step.turn # agent_turn

\* C27: in every epoch the environment phase calls the generator exactly
\* `iterations` times, and after each call epsilon is multiplied by the decay
\* factor and clamped to the floor.
C27_IterationsCalls ==
    [][(phase = "environment" /\ generated' = generated + 1
          /\ step' # ReplayPanic)
       => (/\ epsilon' = decayed(epsilon, options)
           /\ phase' # "environment" => generated' = options.iterations)]_vars

\* C28: the target's parameters are not among the variables the optimizer
\* updates, the optimizer's step changes only the online parameters, the
\* target changes only by the blend of copy_weights_from, and the two models
\* share no parameter.
C28_TargetOnlyBlended ==
    [][(var_store # NoCall /\ phase # "returned" /\ phase # "panicked")
       => (/\ OnlinePath # TargetPath
           /\ TargetPath \notin optimizer
           /\ phase = "optimize" => var_store'[TargetPath] = var_store[TargetPath]
           /\ var_store'[TargetPath] # var_store[TargetPath]
              => /\ phase = "blend"
                 /\ var_store' = copy_weights_from(var_store, TargetPath,
                                     OnlinePath, SomeWeight(options.tau)))]_vars

\* The cells in which two boards differ.
ChangedCells(before, after) ==
    { i \in DOMAIN before.cells : before.cells[i] # after.cells[i] }

\* C33: the history has turn_count + 1 entries; entry 0 is (Black, empty
\* board) and entry k is the board after the k-th move with the side to move
\* next; a successful place_stone appends exactly one entry, a failed one
\* none, and existing entries are never modified.
C33_HistoryPerMove ==
    /\ [](/\ Len(history) = turn_count + 1
          /\ history[1] = <<"Black", BoardNew(board_size)>>
          /\ history[Len(history)] = <<turn, board>>
          /\ \A k \in 2..Len(history) :
                /\ history[k][1] # history[k - 1][1]
                /\ \E i \in DOMAIN history[k][2].cells :
                      /\ ChangedCells(history[k - 1][2], history[k][2]) = {i}
                      /\ history[k - 1][2].cells[i] = "Empty"
                      /\ history[k][2].cells[i] = history[k - 1][1])
    /\ [][(IF ret'.kind = "Ok"
           THEN history' = Append(history, <<turn', board'>>)
           ELSE history' = history)]_vars

\* C33 witness: three moves made and then a failed call, which left the four
\* entries as they were.
C33_Witness ==
    /\ turn_count = 3 /\ Len(history) = 4
    /\ ret.kind = "StoneAlreadyPlaced"
    /\ history[4][1] = "White"

\* The tensors of a model, in the order of its layers.
RECURSIVE BlockTensors(_, _)
BlockTensors(blocks, k) ==
    IF k > Len(blocks) THEN <<>>
    ELSE LET conv(layer) == <<layer.ws, layer.bs.value>>
             bn(layer) == <<layer.running_mean, layer.running_var,
                            layer.ws.value, layer.bs.value>>
         IN conv(blocks[k].conv1) \o bn(blocks[k].bn1)
              \o conv(blocks[k].conv2) \o bn(blocks[k].bn2)
              \o BlockTensors(blocks, k + 1)

TensorsOf(model) ==
    LET conv(layer) == <<layer.ws, layer.bs.value>>
        bn(layer) == <<layer.running_mean, layer.running_var,
                       layer.ws.value, layer.bs.value>>
    IN conv(model.match_channel_conv) \o bn(model.match_channel_bn)
         \o BlockTensors(model.residual_blocks, 1)
         \o conv(model.fc0) \o conv(model.fc1)

\* C31: a soft update with blend 1.0 makes every target parameter equal to
\* the online one, a blend of 0.0 leaves the target unchanged, in general
\* target' = target * (1 - blend) + online * blend, and the update never
\* changes the online parameters.
C31_SoftUpdateBlends ==
    (copied.kind = "Copy" /\ copied.weight.kind = "Some")
    => LET blend == copied.weight.value
           target_now == TensorsOf(copied.target)
           target_was == TensorsOf(copied.target_was)
           online_was == TensorsOf(copied.online_was)
       IN /\ copied.online = copied.online_was
          /\ Len(target_now) = Len(target_was)
          /\ blend = Scale => target_now = online_was
          /\ blend = 0 => target_now = target_was
          /\ \A k \in 1..Len(target_now) :
                target_now[k]
                  = (target_was[k] * (Scale - blend) + online_was[k] * blend)
                      \div Scale

\* C31 witness: a half blend onto a target
\* with two residual blocks that differs from the online model.
C31_Witness ==
    /\ copied.kind = "Copy" /\ copied.weight = SomeWeight(Scale \div 2)
    /\ Len(copied.target.residual_blocks) = 2
    /\ copied.target # copied.target_was
    /\ copied.target # copied.online

\* The larger of two numbers.
Larger(a, b) == IF a >= b THEN a ELSE b

\* C36: every epsilon update sets epsilon to max(epsilon * decay, floor); so
\* from the first update on epsilon >= floor, epsilon is never reset at an
\* epoch boundary, and with 0 <= decay <= 1 and a first epsilon >= floor,
\* epsilon never increases and stays within [floor, first epsilon].
C36_EpsilonSchedule ==
    /\ [](Len(appended) >= 1 => epsilon >= options.epsilon_min)
    /\ []((options.epsilon_decay <= Scale
             /\ options.epsilon >= options.epsilon_min)
          => (options.epsilon_min <= epsilon /\ epsilon <= options.epsilon))
    /\ [][(/\ iteration' = iteration + 1
              => epsilon' = Larger((epsilon * options.epsilon_decay) \div Scale,
                                   options.epsilon_min)
           /\ iteration' # iteration + 1 => epsilon' = epsilon
           /\ (options.epsilon_decay <= Scale
                 /\ options.epsilon >= options.epsilon_min)
              => epsilon' <= epsilon)]_vars

\* C36 witness: in the second epoch, the third update of an epsilon that
\* started at 1.0 and is halved each time has been clamped to the floor.
C36_Witness ==
    /\ epoch = 1 /\ iteration = 1
    /\ options.epsilon = Scale /\ options.epsilon_decay = Scale \div 2
    /\ options.epsilon_min = 1
    /\ epsilon = 1

C38_LostGamesNeverStored ==
    /\ [](\A k \in 1..Len(replay_buffer) : replay_buffer[k].reward # -100)
    /\ [][((/\ phase = "environment" /\ generated' = generated + 1
            /\ step' # ReplayPanic
            /\ ~is_some(PlaceStoneOn(call'.moved_on,
                                     call'.agent_action).ret.game_result)
            /\ is_some(game_result'))
           => (/\ step'.reward = -100
               /\ step'.turn # agent_turn'
               /\ appended' = appended
               /\ replay_buffer' = replay_buffer
               /\ iteration' = iteration
               /\ epsilon' = epsilon
               /\ phase' = "environment"))]_vars

\* C38 witness: the first call of the second epoch, in which the opponent's
\* reply won the game: the buffer holds the steps it held and the epoch has
\* no iteration yet.
C38_Witness ==
    /\ phase = "environment" /\ OpponentEnded /\ step.reward = -100
    /\ epoch = 1 /\ generated = 1 /\ iteration = 0
    /\ Len(replay_buffer) = 2
    /\ \A k \in 1..2 : replay_buffer[k] # step

\* C34: when sample_replay calls are chained from a new game, the opponent's
\* forced pre-move is made only on a game with no move played and never sets
\* a result; at every return the game is finished or it is the learner's
\* turn.
C34_PreMoveOnlyOpens ==
    /\ [](StepReturned => (is_some(game_result) \/ turn = agent_turn))
    /\ [][((step' # ReplayPanic /\ call' # NoCall)
           => LET played == IF is_some(game_result) THEN 0 ELSE turn_count
              IN call'.moved_on.turn_count # played
                 => (/\ played = 0
                     /\ call'.moved_on.turn_count = 1
                     /\ call'.moved_on.turn = agent_turn'
                     /\ call'.moved_on.game_result = NoResult))]_vars

\* C34 witness: a second game of the chain, opened by the opponent's
\* pre-move, in which the learner (White) and the opponent moved on.
C34_Witness ==
    /\ StepReturned /\ supplied # NoCall /\ supplied.finished
    /\ agent_turn = "White" /\ call.moved_on.turn_count = 1
    /\ turn_count = 3 /\ game_result = NoResult

\* C39: with legal moves only, on a board where a fresh game cannot end
\* within its first three moves, a discarded step is always followed by a
\* recorded one (the next call starts a new game), so each environment phase
\* appends exactly `iterations` steps, makes at most 2 * iterations calls of
\* the generator, and ends: while it lasts another pass of the loop can be
\* made, every pass is one more call, and the calls made stay below
\* 2 * iterations.
C39_EnvironmentTerminates ==
    /\ [](generated <= 2 * options.iterations)
    /\ [](phase = "environment"
          => (/\ generated < 2 * options.iterations
              /\ iteration < options.iterations /\ generated < MaxCalls
              /\ sample_replay(TheGame, agent_turn) # {}))
    /\ [][(phase = "environment" => generated' = generated + 1)]_vars
    /\ [][((/\ phase = "environment" /\ generated' = generated + 1
            /\ step # NoCall /\ step.turn # agent_turn
            /\ step' # ReplayPanic)
           => (/\ is_some(game_result)
               /\ call'.moved_on.turn_count <= 1
               /\ appended' = Append(appended, step')))]_vars
    /\ [][((phase = "environment" /\ phase' \notin {"environment", "panicked"})
           => (/\ iteration' = options.iterations
               /\ Len(appended') = (epoch + 1) * options.iterations))]_vars

\* C39 witness: an environment phase of two iterations that took four calls,
\* two of them discarded, has ended.
C39_Witness ==
    /\ phase = "batch" /\ options.iterations = 2
    /\ generated = 4 /\ iteration = 2

---------------------------------------------------------------------------
(* Claims about the evaluation games and the loops that call place_stone   *)
(* (SpecEvaluate, SpecCallers)                                             *)

\* C32: every evaluation game is played until the game has a result, within
\* size * size moves; it is counted in exactly one of the three tallies, by
\* its result and the learner's colour in it, so the tallies of
\* evaluate_many(n) sum to n; evaluation changes neither the replay buffer,
\* nor epsilon, nor the game and the learner's turn the training goes on with.
C32_EvaluationGamesComplete ==
    /\ [](evaluation # NoCall
          => (/\ evaluation.at # "panicked"
              /\ evaluation.game.turn_count
                     <= evaluation.game.board_size * evaluation.game.board_size
              /\ evaluation.tallies.agent_wins + evaluation.tallies.opponent_wins
                     + evaluation.tallies.draws = evaluation.played
              /\ evaluation.played <= evaluation.n
              /\ (evaluation.at \in {"for", "printed"} /\ evaluation.played > 0)
                     => is_some(evaluation.game.game_result)))
    /\ [][((evaluation # NoCall /\ evaluation' # NoCall
             /\ evaluation'.played # evaluation.played)
           => LET result == evaluation'.game.game_result
                  learner == evaluation.agent_turn
                  was == evaluation.tallies
                  now == evaluation'.tallies
              IN /\ evaluation'.played = evaluation.played + 1
                 /\ is_some(result)
                 /\ now.agent_wins = was.agent_wins
                        + (IF result = Win(learner) THEN 1 ELSE 0)
                 /\ now.opponent_wins = was.opponent_wins
                        + (IF result = Win(TurnNext(learner)) THEN 1 ELSE 0)
                 /\ now.draws = was.draws + (IF result = Draw THEN 1 ELSE 0))]_vars
    /\ [][((evaluation # NoCall /\ evaluation' = NoCall)
           => evaluation.played = evaluation.n)]_vars
    /\ [][((evaluation # NoCall \/ evaluation' # NoCall)
           => (/\ replay_buffer' = replay_buffer
               /\ epsilon' = epsilon
               /\ agent_turn' = agent_turn
               /\ board' = board /\ turn' = turn /\ turn_count' = turn_count
               /\ history' = history /\ game_result' = game_result))]_vars

\* an unfinished game has an empty cell for the random player to choose
HasRoom(g) == g.game_result = NoResult => legal_moves(g.board) # <<>>

\* the game a sample_replay call starts from: a new one past a finished game
ReplayStartsFrom ==
    IF is_some(game_result) THEN NewGame(board_size, max_consecutive_stones)
    ELSE TheGame

\* C37: the callers guard the finished game. In the chained sample_replay
\* calls of train, in the loop of evaluate and in the loop of the
\* player-versus-player program, place_stone is called only on a game with
\* no result; and whenever the uniform-random player is asked for a move the
\* game has an empty cell, and the cell chosen is empty.
C37_CallersGuardFinished ==
    /\ [](pvp # NoCall /\ pvp.at = "place" => game_result = NoResult)
    /\ [](evaluation # NoCall
          => (/\ evaluation.placed.kind = "Panic" => evaluation.placed.by = "agent"
              /\ evaluation.placed.kind = "Placed"
                    => LET placed == evaluation.placed
                       IN /\ placed.on.game_result = NoResult
                          /\ placed.by = "random"
                                => (/\ legal_moves(placed.on.board) # <<>>
                                    /\ placed.ret.kind = "Ok"
                                    /\ is_empty(placed.on.board.cells[
                                                    placed.ret.index]))))
    /\ [](phase = "environment"
          => (/\ ReplayStartsFrom.game_result = NoResult
              /\ HasRoom(ReplayStartsFrom)
              /\ \A first \in UniformMoves(ReplayStartsFrom) :
                    LET moved == PlaceStoneOn(ReplayStartsFrom, first).game
                    IN /\ HasRoom(moved)
                       /\ \A second \in UniformMoves(moved) :
                             HasRoom(PlaceStoneOn(moved, second).game)))
    /\ [][((generated' = generated + 1 /\ call' # NoCall)
           => LET on == call'.moved_on
                  played == IF is_some(game_result) THEN 0 ELSE turn_count
                  after == PlaceStoneOn(on, call'.agent_action)
              IN /\ on.game_result = NoResult
                 /\ on.turn_count # played
                       => (played = 0 /\ on.turn_count = 1
                           /\ Cardinality(NonEmptyCells(on.board)) = 1)
                 /\ after.ret.kind = "Ok"
                 /\ call'.opponent_action.kind = "Some"
                       => (/\ after.game.game_result = NoResult
                           /\ legal_moves(after.game.board) # <<>>
                           /\ is_empty(after.game.board.cells[
                                  call'.opponent_action.index])))]_vars

\* C37 witness: train is evaluating after a chained sample_replay call that
\* started a new game with the opponent's first move, and the random player
\* of the evaluation game has just placed the last stone of a drawn game.
C37_Witness ==
    /\ call # NoCall /\ epoch = 1
    /\ call.moved_on.turn_count = 1 /\ call.opponent_action.kind = "Some"
    /\ evaluation # NoCall /\ evaluation.placed.kind = "Placed"
    /\ evaluation.placed.by = "random"
    /\ evaluation.game.game_result = Draw

====
